---- MODULE Spec2Model ----
(***************************************************************************)
(* A model of turtle-builder: the Turtle graph model and its serializer    *)
(* (util/turtle.ts), the CoNLL-U parser, serializer and validator          *)
(* (util/conllu), and the CoNLL-U to Turtle mapper (util/ttl.ts).          *)
(* Texts are modelled as strings and processed character by character, as  *)
(* the TypeScript code does.                                               *)
(***************************************************************************)
EXTENDS Integers, Sequences, FiniteSets, TLC

VARIABLES
  tdoc,     \* turtle.ts TurtleDocument: [prefixes, triples]
  tout,     \* result of the last serializeDocument call: [lines, text]
  tpc,      \* "build" while the graph model is mutated, "serialized" after
  tread,    \* what parse of turtle.ts made of tout.text, once it has read it
  ctexts,   \* source texts: the input, then each re-serialization of it
  cdocs,    \* cdocs[k] is the result of parse on ctexts[k]
  cvals,    \* cvals[k] is the result of validate on ctexts[k]
  minput,   \* arguments of conlluToTurtle: [document, metadata, options]; where the
            \* graph model is built call by call, the arguments of the calls made
  mctx      \* locals of conlluToTurtle: [validSentences, citationSentURIMap]

tvars == <<tdoc, tout, tpc, tread>>

cvars == <<ctexts, cdocs, cvals>>

mvars == <<minput, mctx>>

vars == <<tvars, cvars, mvars>>

(***************************************************************************)
(* JavaScript string primitives                                            *)
(***************************************************************************)
Ch(s, i) == SubSeq(s, i, i)

CharsOf(s) == {Ch(s, i) : i \in 1..Len(s)}

SetMin(S) == CHOOSE x \in S : \A y \in S : x <= y

SetMax(S) == CHOOSE x \in S : \A y \in S : x >= y

startsWith(s, p) == Len(s) >= Len(p) /\ SubSeq(s, 1, Len(p)) = p

endsWith(s, p) == Len(s) >= Len(p) /\ SubSeq(s, Len(s) - Len(p) + 1, Len(s)) = p

\* String.prototype.indexOf, 1-based; 0 stands for JavaScript's -1
indexOfFrom(s, sub, from) ==
  LET hits == {i \in from..(Len(s) - Len(sub) + 1) : SubSeq(s, i, i + Len(sub) - 1) = sub}
  IN IF hits = {} THEN 0 ELSE SetMin(hits)

indexOf(s, sub) == indexOfFrom(s, sub, 1)

includes(s, sub) == indexOf(s, sub) # 0

\* the characters \s matches and trim() strips, within the model's alphabet
WhiteSpace == {" ", "\t", "\n", "\r", "\f"}

trim(s) ==
  LET keep == {i \in 1..Len(s) : Ch(s, i) \notin WhiteSpace}
  IN IF keep = {} THEN "" ELSE SubSeq(s, SetMin(keep), SetMax(keep))

RECURSIVE split(_, _)
\* String.prototype.split with a non-empty separator
split(s, sep) ==
  LET k == indexOf(s, sep)
  IN IF k = 0 THEN <<s>>
     ELSE <<SubSeq(s, 1, k - 1)>> \o split(SubSeq(s, k + Len(sep), Len(s)), sep)

RECURSIVE join(_, _)
\* Array.prototype.join
join(seq, sep) ==
  IF Len(seq) = 0 THEN ""
  ELSE IF Len(seq) = 1 THEN seq[1]
  ELSE LET half == Len(seq) \div 2
       IN join(SubSeq(seq, 1, half), sep) \o sep \o join(SubSeq(seq, half + 1, Len(seq)), sep)

RECURSIVE replaceAll(_, _, _)
\* String.prototype.replace with a global one-character pattern
replaceAll(s, c, by) ==
  IF Len(s) = 0 THEN ""
  ELSE IF Len(s) = 1 THEN (IF s = c THEN by ELSE s)
  ELSE LET half == Len(s) \div 2
       IN replaceAll(SubSeq(s, 1, half), c, by) \o replaceAll(SubSeq(s, half + 1, Len(s)), c, by)

WordChars == CharsOf("abcdefghijklmnopqrstuvwxyzABCDEFGHIJKLMNOPQRSTUVWXYZ0123456789_")

Digits == CharsOf("0123456789")

(***************************************************************************)
(* turtle.ts: the graph model                                              *)
(***************************************************************************)
RDF_TYPE == "http://www.w3.org/1999/02/22-rdf-syntax-ns#type"

XSD_INTEGER == "http://www.w3.org/2001/XMLSchema#integer"

\* an IRI or blank node in object position (typeof value === 'string')
iri(uri) == [kind |-> "iri", value |-> uri, datatype |-> "", language |-> ""]

\* a TurtleLiteral; "" stands for an undefined datatype or language
literal(value, datatype, language) ==
  [kind |-> "lit", value |-> value, datatype |-> datatype, language |-> language]

triple(subject, predicate, object) ==
  [subject |-> subject, predicate |-> predicate, object |-> object]

createDocument == [prefixes |-> <<>>, triples |-> <<>>]

addPrefix_Once(doc, prefix, uri) ==
  IF \E i \in 1..Len(doc.prefixes) : doc.prefixes[i].prefix = prefix THEN doc
  ELSE [doc EXCEPT !.prefixes = Append(@, [prefix |-> prefix, uri |-> uri])]

addPrefix(doc, prefix, uri) ==
  [doc EXCEPT !.prefixes = Append(@, [prefix |-> prefix, uri |-> uri])]

addTriple(doc, subject, predicate, object) ==
  [doc EXCEPT !.triples = Append(@, triple(subject, predicate, object))]

(***************************************************************************)
(* turtle.ts: the serializer                                               *)
(***************************************************************************)
serializePrefix(p) == "@prefix " \o p.prefix \o ": <" \o p.uri \o "> ."

\* the regular expression /^[a-zA-Z0-9_]+:[^/<>]+$/
isPrefixedName(v) ==
  LET c == indexOf(v, ":")
  IN /\ c >= 2
     /\ c < Len(v)
     /\ \A i \in 1..(c - 1) : Ch(v, i) \in WordChars
     /\ \A i \in (c + 1)..Len(v) : Ch(v, i) \notin {"/", "<", ">"}

\* serializeIRI without the blank-node test
serializeIRI_NoBlankTest(v) ==
  IF isPrefixedName(v) /\ ~startsWith(v, "http://") /\ ~startsWith(v, "https://")
  THEN v
  ELSE "<" \o v \o ">"

\* the subject rendering of serializeDocument and the IRI branch of serializeValue
serializeIRI(v) ==
  IF /\ isPrefixedName(v)
     /\ ~startsWith(v, "http://")
     /\ ~startsWith(v, "https://")
     /\ ~startsWith(v, "_:")
  THEN v
  ELSE "<" \o v \o ">"

serializeValue(value) ==
  IF value.kind = "iri" THEN serializeIRI(value.value)
  ELSE LET quoted == "\"" \o replaceAll(value.value, "\"", "\\\"") \o "\""
       IN IF value.language # "" THEN quoted \o "@" \o value.language
          ELSE IF value.datatype # "" THEN
            IF value.datatype = XSD_INTEGER THEN quoted \o "^^xsd:int"
            ELSE IF /\ isPrefixedName(value.datatype)
                    /\ ~startsWith(value.datatype, "http://")
                    /\ ~startsWith(value.datatype, "https://")
                 THEN quoted \o "^^" \o value.datatype
                 ELSE quoted \o "^^<" \o value.datatype \o ">"
          ELSE quoted

\* the predicate rendering of serializeDocument
serializePredicate(p) ==
  IF p = RDF_TYPE \/ p = "rdf:type" THEN "a"
  ELSE IF /\ isPrefixedName(p)
          /\ ~startsWith(p, "http://")
          /\ ~startsWith(p, "https://")
       THEN p
       ELSE "<" \o p \o ">"

\* the keys of triplesBySubject, in insertion order: the subjects in the order
\* of their first triple
subjectOrder(triples) ==
  LET first == SelectSeq([i \in 1..Len(triples) |-> i],
                         LAMBDA i : \A j \in 1..(i - 1) : triples[j].subject # triples[i].subject)
  IN [k \in 1..Len(first) |-> triples[first[k]].subject]

triplesOf(triples, s) == SelectSeq(triples, LAMBDA t : t.subject = s)

RECURSIVE mapValues(_)
mapValues(ts) ==
  IF Len(ts) = 0 THEN <<>> ELSE <<serializeValue(ts[1].object)>> \o mapValues(Tail(ts))

RECURSIVE tripleLines(_, _)
\* the for loop over the triples of one subject that has several; i is 1-based
tripleLines(triples, i) ==
  IF i > Len(triples) THEN <<>>
  ELSE
    LET n == Len(triples)
        t == triples[i]
        predicateStr == serializePredicate(t.predicate)
        samePredTriples == SelectSeq(triples, LAMBDA u : u.predicate = t.predicate)
        k == Len(samePredTriples)
        findIndex == SetMin({j \in 1..n : triples[j].predicate = t.predicate})
    IN IF k > 1 /\ i = findIndex
       THEN LET term == IF i < n /\ i + k - 1 <= n THEN ";"
                        ELSE IF i = n THEN " ." ELSE ";"
            IN <<"  " \o predicateStr \o " "
                   \o join(mapValues(samePredTriples), ",\n    ") \o term>>
               \o tripleLines(triples, i + k)
       ELSE IF k = 1
       THEN <<"  " \o predicateStr \o " " \o serializeValue(t.object)
                \o (IF i = n THEN " ." ELSE ";")>>
            \o tripleLines(triples, i + 1)
       ELSE tripleLines(triples, i + 1)

\* the subject length above which the type predicate moves to its own line
LongSubject == 60

\* the lines pushed for one subject
subjectBlock(triples) ==
  LET firstTriple == triples[1]
      subjectStr == serializeIRI(firstTriple.subject)
  IN IF Len(triples) = 1
     THEN <<subjectStr \o " " \o serializePredicate(firstTriple.predicate) \o " "
              \o serializeValue(firstTriple.object) \o " .">>
     ELSE
       LET tl == tripleLines(triples, 1)
           firstLine == tl[1]
           firstPredicate == IF startsWith(firstLine, "  ")
                             THEN SubSeq(firstLine, 3, Len(firstLine)) ELSE firstLine
           isTypePredicate == startsWith(trim(firstPredicate), "a ")
           \* /^a (.+)$/ : "." matches no line terminator
           typeMatch == /\ ~includes(trim(firstPredicate), "\n")
                        /\ ~includes(trim(firstPredicate), "\r")
                        /\ Len(trim(firstPredicate)) > 2
           head == IF isTypePredicate /\ Len(subjectStr) > LongSubject /\ typeMatch
                   THEN <<subjectStr,
                          "    a " \o SubSeq(trim(firstPredicate), 3, Len(trim(firstPredicate)))>>
                   ELSE <<subjectStr \o " " \o firstPredicate>>
       IN IF Len(tl) = 0 THEN <<>>
          ELSE head \o Tail(tl) \o <<"">>

RECURSIVE blocks(_, _)
blocks(triples, order) ==
  IF Len(order) = 0 THEN <<>>
  ELSE IF Len(order) = 1 THEN subjectBlock(triplesOf(triples, order[1]))
  ELSE LET half == Len(order) \div 2
       IN blocks(triples, SubSeq(order, 1, half))
            \o blocks(triples, SubSeq(order, half + 1, Len(order)))

RECURSIVE prefixLines(_)
prefixLines(ps) ==
  IF Len(ps) = 0 THEN <<>> ELSE <<serializePrefix(ps[1])>> \o prefixLines(Tail(ps))

\* the array `lines` at the end of serializeDocument
serializeLines(doc) ==
  prefixLines(doc.prefixes)
    \o (IF Len(doc.prefixes) > 0 THEN <<"">> ELSE <<>>)
    \o blocks(doc.triples, subjectOrder(doc.triples))

serializeDocument(doc) == join(serializeLines(doc), "\n")

(***************************************************************************)
(* conllu: the source document model                                       *)
(***************************************************************************)
\* an optional value: <<>> is JavaScript's undefined, <<x>> a present value
None == <<>>

Some(x) == <<x>>

\* fields[i] || '_'
orUnderscore(f) == IF f = "" THEN "_" ELSE f

\* fields[i] === '_' ? undefined : fields[i] || '_'
optionalField(f) == IF f = "_" THEN None ELSE Some(orUnderscore(f))

\* the printable ASCII characters in code-unit order, which Array.prototype.sort
\* compares strings by: codes 32..95 and 97..126 (the grave accent, 96, is
\* not part of any text used here)
AsciiLow == " !\"#$%&'()*+,-./0123456789:;<=>?@ABCDEFGHIJKLMNOPQRSTUVWXYZ[\\]^_"

AsciiHigh == "abcdefghijklmnopqrstuvwxyz{|}~"

charCode(c) ==
  IF includes(AsciiLow, c) THEN indexOf(AsciiLow, c) + 31 ELSE indexOf(AsciiHigh, c) + 96

RECURSIVE strLess(_, _)
strLess(a, b) ==
  IF Len(b) = 0 THEN FALSE
  ELSE IF Len(a) = 0 THEN TRUE
  ELSE IF Ch(a, 1) = Ch(b, 1) THEN strLess(SubSeq(a, 2, Len(a)), SubSeq(b, 2, Len(b)))
  ELSE charCode(Ch(a, 1)) < charCode(Ch(b, 1))

RECURSIVE sortStrings(_)
sortStrings(seq) ==
  IF Len(seq) <= 1 THEN seq
  ELSE LET m == CHOOSE i \in 1..Len(seq) : \A j \in 1..Len(seq) : ~strLess(seq[j], seq[i])
       IN <<seq[m]>> \o sortStrings(SubSeq(seq, 1, m - 1) \o SubSeq(seq, m + 1, Len(seq)))

isDigits(s) == Len(s) > 0 /\ CharsOf(s) \subseteq Digits

RECURSIVE Number(_)
\* Number / parseInt of a string of decimal digits
Number(s) ==
  IF Len(s) = 0 THEN 0
  ELSE 10 * Number(SubSeq(s, 1, Len(s) - 1)) + (charCode(Ch(s, Len(s))) - 48)

\* /^\d+-\d+$/
isMultiwordToken(id) ==
  LET parts == split(id, "-")
  IN Len(parts) = 2 /\ isDigits(parts[1]) /\ isDigits(parts[2])

\* /^(0|[1-9]\d*)\.[1-9]\d*$/
isEmptyNode(id) ==
  LET parts == split(id, ".")
  IN /\ Len(parts) = 2
     /\ isDigits(parts[1]) /\ (parts[1] = "0" \/ Ch(parts[1], 1) # "0")
     /\ isDigits(parts[2]) /\ Ch(parts[2], 1) # "0"

\* /^\d+$/
isRegularToken(id) == isDigits(id)

isValidTokenId(id) ==
  isMultiwordToken(id) \/ isEmptyNode(id) \/ isRegularToken(id) \/ id = "_"

(***************************************************************************)
(* conllu: FEATS and MISC                                                  *)
(***************************************************************************)
\* result[key] = value on an object kept as a sequence of pairs in insertion order
setKey(obj, key, value) ==
  IF \E i \in 1..Len(obj) : obj[i].key = key
  THEN [i \in 1..Len(obj) |-> IF obj[i].key = key THEN [key |-> key, value |-> value] ELSE obj[i]]
  ELSE Append(obj, [key |-> key, value |-> value])

RECURSIVE parseFeatures(_, _)
\* the loop of parseFeats: [thrown, message, value]
parseFeatures(features, result) ==
  IF Len(features) = 0 THEN [thrown |-> FALSE, message |-> "", value |-> Some(result)]
  ELSE LET feature == features[1]
           equalIndex == indexOf(feature, "=")
           key == trim(SubSeq(feature, 1, equalIndex - 1))
           value == trim(SubSeq(feature, equalIndex + 1, Len(feature)))
       IN IF equalIndex = 0
          THEN [thrown |-> TRUE, value |-> None,
                message |-> "Invalid FEATS format: \"" \o feature \o "\" (missing equals sign)"]
          ELSE IF key = ""
          THEN [thrown |-> TRUE, value |-> None,
                message |-> "Invalid FEATS format: \"" \o feature \o "\" (empty feature key)"]
          ELSE parseFeatures(Tail(features), setKey(result, key, value))

parseFeats(featsString) ==
  IF featsString = "_" \/ trim(featsString) = ""
  THEN [thrown |-> FALSE, message |-> "", value |-> None]
  ELSE parseFeatures(split(featsString, "|"), <<>>)

RECURSIVE featsKeys(_)
featsKeys(feats) == IF Len(feats) = 0 THEN <<>> ELSE <<feats[1].key>> \o featsKeys(Tail(feats))

featsValue(feats, key) == (CHOOSE e \in {feats[i] : i \in 1..Len(feats)} : e.key = key).value

RECURSIVE featsPairs(_, _)
featsPairs(feats, keys) ==
  IF Len(keys) = 0 THEN <<>>
  ELSE <<keys[1] \o "=" \o featsValue(feats, keys[1])>> \o featsPairs(feats, Tail(keys))

serializeFeats(feats) ==
  IF Len(feats) = 0 THEN "_"
  ELSE join(featsPairs(feats, sortStrings(featsKeys(feats))), "|")

\* /[\x00-\x1F\x7F]/ over the characters used here
ControlChars == {"\t", "\n", "\r", "\f"}

\* [thrown, message, value]
parseMisc(miscString) ==
  IF miscString = "_" THEN [thrown |-> FALSE, message |-> "", value |-> None]
  ELSE IF miscString = ""
  THEN [thrown |-> TRUE, value |-> None, message |-> "Invalid MISC format: \"\" (empty field)"]
  ELSE IF CharsOf(miscString) \cap ControlChars # {}
  THEN [thrown |-> TRUE, value |-> None,
        message |-> "Invalid MISC format: \"" \o miscString \o "\" (contains control characters)"]
  ELSE IF startsWith(miscString, " ") \/ endsWith(miscString, " ")
  THEN [thrown |-> TRUE, value |-> None,
        message |-> "Invalid MISC format: \"" \o miscString \o "\" (starts or ends with space)"]
  ELSE [thrown |-> FALSE, message |-> "", value |-> Some(split(miscString, "|"))]

serializeMisc(misc) == IF Len(misc) = 0 THEN "_" ELSE join(misc, "|")

(***************************************************************************)
(* conllu: parse                                                           *)
(***************************************************************************)
\* the 1-based positions of FIELD_INDICES
IDX_ID == 1
IDX_FORM == 2
IDX_LEMMA == 3
IDX_UPOS == 4
IDX_XPOS == 5
IDX_FEATS == 6
IDX_HEAD == 7
IDX_DEPREL == 8
IDX_DEPS == 9
IDX_MISC == 10

FIELD_NAMES == <<"ID", "FORM", "LEMMA", "UPOS", "XPOS", "FEATS", "HEAD", "DEPREL", "DEPS", "MISC">>

\* the least number of tab-separated fields of a token line
FieldCount == 10

parseComment(line) ==
  LET commentContent == trim(SubSeq(line, 2, Len(line)))
      equalIndex == indexOf(commentContent, "=")
  IN IF equalIndex # 0
     THEN [type |-> "metadata",
           key |-> trim(SubSeq(commentContent, 1, equalIndex - 1)),
           value |-> trim(SubSeq(commentContent, equalIndex + 1, Len(commentContent)))]
     ELSE [type |-> "freeform", text |-> commentContent]

createToken(fields) ==
  LET feats == parseFeats(orUnderscore(fields[IDX_FEATS]))
      misc == parseMisc(orUnderscore(fields[IDX_MISC]))
  IN [id |-> orUnderscore(fields[IDX_ID]),
      form |-> orUnderscore(fields[IDX_FORM]),
      lemma |-> optionalField(fields[IDX_LEMMA]),
      upos |-> optionalField(fields[IDX_UPOS]),
      xpos |-> optionalField(fields[IDX_XPOS]),
      feats |-> IF feats.thrown THEN None ELSE feats.value,
      head |-> optionalField(fields[IDX_HEAD]),
      deprel |-> optionalField(fields[IDX_DEPREL]),
      deps |-> optionalField(fields[IDX_DEPS]),
      misc |-> IF misc.thrown THEN None ELSE misc.value]

emptySentence == [comments |-> <<>>, tokens |-> <<>>]

\* currentSentence ??= { comments: [], tokens: [] }
orEmptySentence(current) == IF current = None THEN emptySentence ELSE current[1]

RECURSIVE parseLines_ShortOpens(_, _, _)
\* parseLines with the sentence opened before the test of the field count
parseLines_ShortOpens(lines, sentences, current) ==
  IF Len(lines) = 0 THEN sentences \o current
  ELSE
    LET trimmedLine == trim(lines[1])
        fields == split(trimmedLine, "\t")
        cur == orEmptySentence(current)
    IN IF trimmedLine = ""
       THEN parseLines_ShortOpens(Tail(lines), sentences \o current, None)
       ELSE IF startsWith(trimmedLine, "#")
       THEN parseLines_ShortOpens(Tail(lines), sentences,
                       Some([cur EXCEPT !.comments = Append(@, parseComment(trimmedLine))]))
       ELSE IF Len(fields) >= FieldCount
       THEN parseLines_ShortOpens(Tail(lines), sentences,
                       Some([cur EXCEPT !.tokens = Append(@, createToken(fields))]))
       ELSE parseLines_ShortOpens(Tail(lines), sentences, Some(cur))

RECURSIVE parseLines(_, _, _)
\* the loop of parse over the lines, with currentSentence as an optional value
parseLines(lines, sentences, current) ==
  IF Len(lines) = 0 THEN sentences \o current
  ELSE
    LET trimmedLine == trim(lines[1])
        fields == split(trimmedLine, "\t")
        cur == orEmptySentence(current)
    IN IF trimmedLine = ""
       THEN parseLines(Tail(lines), sentences \o current, None)
       ELSE IF startsWith(trimmedLine, "#")
       THEN parseLines(Tail(lines), sentences,
                       Some([cur EXCEPT !.comments = Append(@, parseComment(trimmedLine))]))
       ELSE IF Len(fields) >= FieldCount
       THEN parseLines(Tail(lines), sentences,
                       Some([cur EXCEPT !.tokens = Append(@, createToken(fields))]))
       ELSE parseLines(Tail(lines), sentences, current)

\* parse raising on a line that has too few fields
parse_ThrowsOnFieldCount(text) ==
  IF \E i \in 1..Len(split(trim(text), "\n")) :
       LET line == trim(split(trim(text), "\n")[i])
       IN line # "" /\ ~startsWith(line, "#") /\ Len(split(line, "\t")) < FieldCount
  THEN [sentences |-> <<>>, thrown |-> "Token line must have 10 tab-separated fields"]
  ELSE [sentences |-> parseLines(split(trim(text), "\n"), <<>>, None)]

parse(text) == [sentences |-> parseLines(split(trim(text), "\n"), <<>>, None)]

(***************************************************************************)
(* conllu: serialize                                                       *)
(***************************************************************************)
\* value ?? '_'
orElseUnderscore(opt) == IF opt = None THEN "_" ELSE opt[1]

serializeComment(comment) ==
  IF comment.type = "metadata" THEN "# " \o comment.key \o " = " \o comment.value
  ELSE "# " \o comment.text

serializeToken(token) ==
  join(<<token.id, token.form,
         orElseUnderscore(token.lemma), orElseUnderscore(token.upos),
         orElseUnderscore(token.xpos),
         IF token.feats = None THEN "_" ELSE serializeFeats(token.feats[1]),
         orElseUnderscore(token.head), orElseUnderscore(token.deprel),
         orElseUnderscore(token.deps),
         IF token.misc = None THEN "_" ELSE serializeMisc(token.misc[1])>>, "\t")

RECURSIVE mapSeq(_, _)
mapSeq(F(_), seq) == IF Len(seq) = 0 THEN <<>> ELSE <<F(seq[1])>> \o mapSeq(F, Tail(seq))

serializeSentence(sentence) ==
  join(mapSeq(serializeComment, sentence.comments) \o mapSeq(serializeToken, sentence.tokens),
       "\n")

serialize(document) ==
  LET joined == join(mapSeq(serializeSentence, document.sentences), "\n\n")
  IN IF endsWith(joined, "\n\n") THEN SubSeq(joined, 1, Len(joined) - 2) ELSE joined

(***************************************************************************)
(* conllu: validate                                                        *)
(***************************************************************************)
Line(lineNumber) == "Line " \o ToString(lineNumber) \o ": "

validateComment(line, lineNumber) ==
  LET commentContent == trim(SubSeq(line, 2, Len(line)))
      parts == split(commentContent, "=")
  IN IF includes(commentContent, "=")
        /\ (Len(parts) # 2 \/ trim(parts[1]) = "" \/ trim(parts[2]) = "")
     THEN <<Line(lineNumber) \o "Invalid metadata format">>
     ELSE <<>>

validateMultiwordToken(fields, lineNumber) ==
  (IF \E i \in {IDX_LEMMA, IDX_UPOS, IDX_XPOS, IDX_HEAD, IDX_DEPREL, IDX_DEPS} : fields[i] # "_"
   THEN <<Line(lineNumber) \o
          "Multiword token fields (except FORM, MISC, FEATS=Typo=Yes) must be underscores">>
   ELSE <<>>)
  \o
  (IF fields[IDX_FEATS] # "_" /\ fields[IDX_FEATS] # "Typo=Yes"
   THEN <<Line(lineNumber) \o "Multiword token FEATS must be '_' or 'Typo=Yes'">>
   ELSE <<>>)

validateEmptyNode_NoDeps(fields, lineNumber) ==
  IF fields[IDX_HEAD] # "_" \/ fields[IDX_DEPREL] # "_"
  THEN <<Line(lineNumber) \o "Empty node fields HEAD and DEPREL must be underscores">>
  ELSE <<>>

validateEmptyNode(fields, lineNumber) ==
  (IF fields[IDX_HEAD] # "_" \/ fields[IDX_DEPREL] # "_"
   THEN <<Line(lineNumber) \o "Empty node fields HEAD and DEPREL must be underscores">>
   ELSE <<>>)
  \o
  (IF fields[IDX_DEPS] = "_"
   THEN <<Line(lineNumber) \o "Empty node field DEPS is required">>
   ELSE <<>>)

validateRegularToken(fields, lineNumber) ==
  (IF ~isDigits(fields[IDX_HEAD])
   THEN <<Line(lineNumber) \o "HEAD must be integer or 0">>
   ELSE <<>>)
  \o
  (IF fields[IDX_DEPREL] = "" \/ fields[IDX_DEPREL] = "_"
   THEN <<Line(lineNumber) \o "DEPREL must not be empty">>
   ELSE <<>>)

SPACE_ALLOWED_INDICES == {IDX_FORM, IDX_LEMMA, IDX_MISC}

RECURSIVE validateFieldSpacesFrom(_, _, _)
validateFieldSpacesFrom(fields, lineNumber, i) ==
  IF i > Len(fields) \/ i > FieldCount THEN <<>>
  ELSE (IF i \notin SPACE_ALLOWED_INDICES /\ CharsOf(fields[i]) \cap WhiteSpace # {}
        THEN <<Line(lineNumber) \o "No spaces allowed in field " \o FIELD_NAMES[i]>>
        ELSE <<>>)
       \o validateFieldSpacesFrom(fields, lineNumber, i + 1)

validateFieldSpaces(fields, lineNumber) == validateFieldSpacesFrom(fields, lineNumber, 1)

validateFeats(fields, lineNumber) ==
  LET featsString == fields[IDX_FEATS]
      parsed == parseFeats(featsString)
  IN IF featsString = "_" \/ featsString = "" THEN <<>>
     ELSE IF parsed.thrown THEN <<Line(lineNumber) \o parsed.message>>
     ELSE <<>>

validateTokenLine(line, lineNumber) ==
  LET fields == split(line, "\t")
      id == fields[IDX_ID]
  IN IF Len(fields) < FieldCount
     THEN <<Line(lineNumber) \o "Token line must have 10 tab-separated fields">>
     ELSE IF ~isValidTokenId(id)
     THEN <<Line(lineNumber) \o "Invalid token ID format">>
     ELSE (IF isMultiwordToken(id) THEN validateMultiwordToken(fields, lineNumber)
           ELSE IF isEmptyNode(id) THEN validateEmptyNode(fields, lineNumber)
           ELSE validateRegularToken(fields, lineNumber))
          \o validateFieldSpaces(fields, lineNumber)
          \o validateFeats(fields, lineNumber)

RECURSIVE validateLines(_, _)
\* the first loop of validate, from line i on
validateLines(lines, i) ==
  IF i > Len(lines) THEN <<>>
  ELSE LET line == trim(lines[i])
       IN (IF line = "" THEN <<>>
           ELSE IF startsWith(line, "#") THEN validateComment(line, i)
           ELSE validateTokenLine(line, i))
          \o validateLines(lines, i + 1)

\* the state of validateSentenceConstraints at the start of a sentence
sentenceStart(currentSentence) ==
  [currentSentence |-> currentSentence, hasSentId |-> FALSE, hasText |-> FALSE,
   hasTokens |-> FALSE, multiwordRanges |-> <<>>, emptyNodeSequences |-> {},
   tokenLineNumber |-> 0]

\* checkSentenceMeta without its test of hasTokens
checkSentenceMeta_NoTokenTest(st) ==
  (IF ~st.hasSentId
   THEN <<"Sentence " \o ToString(st.currentSentence) \o ": Missing required sent_id comment">>
   ELSE <<>>)
  \o
  (IF ~st.hasText
   THEN <<"Sentence " \o ToString(st.currentSentence) \o ": Missing required text comment">>
   ELSE <<>>)

checkSentenceMeta(st) ==
  IF st.hasTokens
  THEN (IF ~st.hasSentId
        THEN <<"Sentence " \o ToString(st.currentSentence) \o ": Missing required sent_id comment">>
        ELSE <<>>)
       \o
       (IF ~st.hasText
        THEN <<"Sentence " \o ToString(st.currentSentence) \o ": Missing required text comment">>
        ELSE <<>>)
  ELSE <<>>

RECURSIVE overlapErrors(_, _, _, _)
overlapErrors(ranges, start, end, lineNumber) ==
  IF Len(ranges) = 0 THEN <<>>
  ELSE LET r == split(ranges[1], "-")
       IN (IF start <= Number(r[2]) /\ end >= Number(r[1])
           THEN <<Line(lineNumber) \o "Multiword token ranges must not overlap">>
           ELSE <<>>)
          \o overlapErrors(Tail(ranges), start, end, lineNumber)

multiwordRangeErrors(st, id, lineNumber) ==
  LET r == split(id, "-")
      start == Number(r[1])
      end == Number(r[2])
  IN (IF start >= end
      THEN <<Line(lineNumber) \o "Multiword token range must be nonempty (start < end)">>
      ELSE <<>>)
     \o overlapErrors(st.multiwordRanges, start, end, lineNumber)

\* emptyNodeSequences.get(baseId) || 0
sequenceOf(st, baseId) ==
  IF \E e \in st.emptyNodeSequences : e.base = baseId
  THEN (CHOOSE e \in st.emptyNodeSequences : e.base = baseId).seq
  ELSE 0

emptyNodeErrors(st, id, tokenLineNumber) ==
  LET m == split(id, ".")
      expectedSequence == sequenceOf(st, m[1]) + 1
  IN IF Number(m[2]) # expectedSequence
     THEN <<Line(tokenLineNumber) \o
            "Empty node sequence must start at 1 and be consecutive (expected " \o
            m[1] \o "." \o ToString(expectedSequence) \o ", got " \o id \o ")">>
     ELSE <<>>

RECURSIVE sentenceConstraints(_, _, _)
\* the loop of validateSentenceConstraints from line i on, with its locals in st
sentenceConstraints(lines, i, st) ==
  IF i > Len(lines) THEN checkSentenceMeta(st)
  ELSE
    LET line == trim(lines[i])
        commentContent == trim(SubSeq(line, 2, Len(line)))
        equalIndex == indexOf(commentContent, "=")
        key == trim(SubSeq(commentContent, 1, equalIndex - 1))
        fields == split(line, "\t")
        id == fields[IDX_ID]
        counted == [st EXCEPT !.tokenLineNumber = @ + 1]
        m == split(id, ".")
    IN IF line = ""
       THEN checkSentenceMeta(st)
            \o sentenceConstraints(lines, i + 1, sentenceStart(st.currentSentence + 1))
       ELSE IF startsWith(line, "#")
       THEN sentenceConstraints(lines, i + 1,
              IF equalIndex # 0
              THEN [st EXCEPT !.hasSentId = @ \/ key = "sent_id", !.hasText = @ \/ key = "text"]
              ELSE st)
       ELSE IF Len(fields) < FieldCount
       THEN sentenceConstraints(lines, i + 1, counted)
       ELSE
         (IF isMultiwordToken(id) THEN multiwordRangeErrors(st, id, i) ELSE <<>>)
         \o (IF isEmptyNode(id) THEN emptyNodeErrors(st, id, counted.tokenLineNumber) ELSE <<>>)
         \o sentenceConstraints(lines, i + 1,
              [counted EXCEPT
                 !.hasTokens = TRUE,
                 !.multiwordRanges = IF isMultiwordToken(id) THEN Append(@, id) ELSE @,
                 !.emptyNodeSequences =
                    IF isEmptyNode(id)
                    THEN {e \in @ : e.base # m[1]} \cup {[base |-> m[1], seq |-> Number(m[2])]}
                    ELSE @])

validateSentenceConstraints(lines) == sentenceConstraints(lines, 1, sentenceStart(1))

validate(text) ==
  LET lines == split(trim(text), "\n")
      errors == validateLines(lines, 1) \o validateSentenceConstraints(lines)
  IN [isValid |-> Len(errors) = 0, errors |-> errors]

(***************************************************************************)
(* turtle.ts: helpers for common RDF patterns.  A conversion that has      *)
(* thrown carries the message in a field `thrown`; no statement after a    *)
(* throw runs, so every helper leaves such a document as it is.            *)
(***************************************************************************)
throw(doc, message) ==
  IF "thrown" \in DOMAIN doc THEN doc
  ELSE [prefixes |-> doc.prefixes, triples |-> doc.triples, thrown |-> message]

aborted(doc) == "thrown" \in DOMAIN doc

addType(doc, subject, type) ==
  IF aborted(doc) THEN doc ELSE addTriple(doc, subject, RDF_TYPE, iri(type))

addLabel(doc, subject, label) ==
  IF aborted(doc) THEN doc ELSE addTriple(doc, subject, "rdfs:label", literal(label, "", ""))

addProperty(doc, subject, predicate, object) ==
  IF aborted(doc) THEN doc ELSE addTriple(doc, subject, predicate, iri(object))

addStringProperty(doc, subject, predicate, value) ==
  IF aborted(doc) THEN doc ELSE addTriple(doc, subject, predicate, literal(value, "", ""))

addIntegerProperty(doc, subject, predicate, value) ==
  IF aborted(doc) THEN doc
  ELSE addTriple(doc, subject, predicate, literal(ToString(value), XSD_INTEGER, ""))

RECURSIVE addProperties(_, _, _, _)
\* for (const o of objects) addProperty(doc, subject, predicate, o)
addProperties(doc, subject, predicate, objects) ==
  IF Len(objects) = 0 THEN doc
  ELSE addProperties(addProperty(doc, subject, predicate, objects[1]),
                     subject, predicate, Tail(objects))

(***************************************************************************)
(* ttl.ts: text helpers                                                    *)
(***************************************************************************)
RECURSIVE toLowerCase(_)
\* String.prototype.toLowerCase over the ASCII letters
toLowerCase(s) ==
  LET upper == "ABCDEFGHIJKLMNOPQRSTUVWXYZ"
      lower == "abcdefghijklmnopqrstuvwxyz"
      c == Ch(s, 1)
  IN IF Len(s) = 0 THEN ""
     ELSE (IF includes(upper, c) THEN Ch(lower, indexOf(upper, c)) ELSE c)
          \o toLowerCase(SubSeq(s, 2, Len(s)))

RECURSIVE encodeURIComponent(_)
\* encodeURIComponent over ASCII text: a character outside the unreserved set
\* becomes "%" and the two hexadecimal digits of its code
encodeURIComponent(s) ==
  LET unreserved ==
        CharsOf("ABCDEFGHIJKLMNOPQRSTUVWXYZabcdefghijklmnopqrstuvwxyz0123456789-_.!~*'()")
      hex == "0123456789ABCDEF"
      c == Ch(s, 1)
  IN IF Len(s) = 0 THEN ""
     ELSE (IF c \in unreserved THEN c
           ELSE "%" \o Ch(hex, (charCode(c) \div 16) + 1) \o Ch(hex, (charCode(c) % 16) + 1))
          \o encodeURIComponent(SubSeq(s, 2, Len(s)))

\* a property of a comment object, "" when the object has no such property
\* (every use below tests it for truthiness only)
prop(comment, name) == IF name \in DOMAIN comment THEN comment[name] ELSE ""

\* s without its first n characters
drop(s, n) == SubSeq(s, n + 1, Len(s))

\* s without its leading white space
trimStart(s) ==
  LET keep == {i \in 1..Len(s) : Ch(s, i) \notin WhiteSpace}
  IN IF keep = {} THEN "" ELSE SubSeq(s, SetMin(keep), Len(s))

\* the longest prefix of s that "." matches: s up to its first line terminator
firstLine(s) ==
  LET terminators == {i \in 1..Len(s) : Ch(s, i) \in {"\n", "\r"}}
  IN IF terminators = {} THEN s ELSE SubSeq(s, 1, SetMin(terminators) - 1)

\* the match of (?:\s+id\s*=\s*(.+)) at the start of rest, the tail of a
\* trimmed text: [matched, id, end], where end tells whether the match reaches
\* the end of rest.  The capture starts after the white space that follows "=".
idGroup(rest) ==
  LET afterSpace == trimStart(rest)
      afterId == trimStart(drop(afterSpace, 2))
      afterEq == trimStart(drop(afterId, 1))
  IN IF /\ Len(afterSpace) < Len(rest)
        /\ toLowerCase(SubSeq(afterSpace, 1, 2)) = "id"
        /\ startsWith(afterId, "=")
        /\ afterEq # ""
     THEN [matched |-> TRUE, id |-> firstLine(afterEq), end |-> firstLine(afterEq) = afterEq]
     ELSE [matched |-> FALSE, id |-> "", end |-> FALSE]

\* the result of value.match(/^#\s*<word>(?:\s+id\s*=\s*(.+))?$/i), given the
\* match of the id group on the text after the word
lineMatch(rest, group) ==
  IF rest = "" THEN [matched |-> TRUE, id |-> ""]
  ELSE IF group.matched /\ group.end THEN [matched |-> TRUE, id |-> group.id]
  ELSE [matched |-> FALSE, id |-> ""]

\* value.match(/^#\s*<word>(?:\s+id\s*=\s*(.+))?$/i): [matched, id]
matchMarkerLine(value, word) ==
  LET afterHash == trimStart(drop(value, 1))
  IN IF startsWith(value, "#") /\ startsWith(toLowerCase(afterHash), word)
     THEN lineMatch(drop(afterHash, Len(word)), idGroup(drop(afterHash, Len(word))))
     ELSE [matched |-> FALSE, id |-> ""]

\* the positions at which word occurs in s, ignoring case
occurrences(s, word) ==
  {i \in 1..(Len(s) - Len(word) + 1) : toLowerCase(SubSeq(s, i, i + Len(word) - 1)) = word}

\* String.prototype.includes with a word, case-sensitive
includesWord(s, word) ==
  \E i \in 1..(Len(s) - Len(word) + 1) : SubSeq(s, i, i + Len(word) - 1) = word

\* trimmed.match(/<word>(?:\s+id\s*=\s*(.+))?/i): [matched, id]
matchMarkerAnywhere(trimmed, word) ==
  LET occ == occurrences(trimmed, word)
  IN IF occ = {} THEN [matched |-> FALSE, id |-> ""]
     ELSE [matched |-> TRUE, id |-> idGroup(drop(trimmed, SetMin(occ) + Len(word) - 1)).id]

(***************************************************************************)
(* ttl.ts: parseNewdocNewpar                                               *)
(***************************************************************************)
\* { type, id } or null
parseNewdocNewpar(comment) ==
  LET value == prop(comment, "value")
      \* comment.value || String(comment)
      textToCheck == IF value # "" THEN value ELSE "[object Object]"
      \* the two tests of a match that the freeform block and the fallback share
      markerOf(newdocMatch, newparMatch) ==
        IF newdocMatch.matched THEN Some([type |-> "newdoc", id |-> trim(newdocMatch.id)])
        ELSE IF newparMatch.matched
        THEN Some([type |-> "newpar", id |-> trim(newparMatch.id)])
        ELSE None
      \* the blocks in order, given what the freeform block and the fallback find
      firstOf(inFreeform, inAnyText) ==
        IF comment.type = "newdoc"
        THEN Some([type |-> "newdoc",
                   id |-> trim(IF value # "" THEN value ELSE prop(comment, "id"))])
        ELSE IF comment.type = "newpar"
        THEN Some([type |-> "newpar",
                   id |-> trim(IF value # "" THEN value ELSE prop(comment, "id"))])
        ELSE IF comment.type = "freeform" /\ value # "" /\ inFreeform # None
        THEN inFreeform
        ELSE IF comment.type = "metadata" /\ prop(comment, "key") = "newdoc"
        THEN Some([type |-> "newdoc", id |-> trim(value)])
        ELSE IF comment.type = "metadata" /\ prop(comment, "key") = "newpar"
        THEN Some([type |-> "newpar", id |-> trim(value)])
        ELSE inAnyText
  IN firstOf(markerOf(matchMarkerLine(trim(value), "newdoc"),
                      matchMarkerLine(trim(value), "newpar")),
             markerOf(matchMarkerAnywhere(trim(textToCheck), "newdoc"),
                      matchMarkerAnywhere(trim(textToCheck), "newpar")))

(***************************************************************************)
(* ttl.ts: URI generators.  An optional string argument is "" when not     *)
(* given (the code tests it for truthiness), an optional index is None.    *)
(***************************************************************************)
labelIndex(label, index) == label \o "_" \o ToString(index)

generateDocumentCitationURI(corpusRef, docTitle, docId, docIndex, documentLabel) ==
  LET id == IF docId # "" THEN docId ELSE labelIndex(documentLabel, docIndex)
  IN corpusRef \o "/" \o encodeURIComponent(docTitle) \o "/CiteStructure/"
       \o encodeURIComponent(id)

generateParagraphCitationURI(corpusRef, docTitle, paraId, paraIndex, paragraphLabel, parentDocId, parentDocIndex, parentDocumentLabel) ==
  LET id == IF paraId # "" THEN paraId ELSE labelIndex(paragraphLabel, paraIndex)
      basePath ==
        IF parentDocId # "" \/ parentDocIndex # None
        THEN "CiteStructure/" \o
             encodeURIComponent(IF parentDocId # "" THEN parentDocId
                                ELSE labelIndex(parentDocumentLabel, parentDocIndex[1]))
        ELSE "CiteStructure"
  IN corpusRef \o "/" \o encodeURIComponent(docTitle) \o "/" \o basePath \o "/"
       \o encodeURIComponent(id)

generateSentenceURI(corpusRef, docTitle, sentenceNum, parentDocId, parentDocIndex, parentParaId, parentParaIndex, parentDocumentLabel, parentParagraphLabel) ==
  LET docPart ==
        IF parentDocId # "" \/ parentDocIndex # None
        THEN <<encodeURIComponent(IF parentDocId # "" THEN parentDocId
                                  ELSE labelIndex(parentDocumentLabel, parentDocIndex[1]))>>
        ELSE <<>>
      paraPart ==
        IF parentParaId # "" \/ parentParaIndex # None
        THEN <<encodeURIComponent(IF parentParaId # "" THEN parentParaId
                                  ELSE labelIndex(parentParagraphLabel, parentParaIndex[1]))>>
        ELSE <<>>
      pathParts == <<"CiteStructure">> \o docPart \o paraPart
                     \o <<"s" \o ToString(sentenceNum)>>
  IN corpusRef \o "/" \o encodeURIComponent(docTitle) \o "/" \o join(pathParts, "/")

generateTokenURI(sentURI, tokenNum) == sentURI \o "/t" \o ToString(tokenNum)

generateUDDepURI(corpusRef, docTitle, sentNum, tokenId) ==
  corpusRef \o "/" \o encodeURIComponent(docTitle) \o "/UD/s" \o ToString(sentNum)
    \o "t" \o ToString(tokenId)

generateUDLayerSentenceURI(corpusRef, docTitle, sentenceNum) ==
  corpusRef \o "/" \o encodeURIComponent(docTitle) \o "/UDAnnotationLayer/Sentence_"
    \o ToString(sentenceNum)

generateMorphologyAnnotationURI(corpusRef, docTitle, sentNum, tokenId) ==
  corpusRef \o "/" \o encodeURIComponent(docTitle) \o "/UDMorphologyAnnotationLayer/id/s"
    \o ToString(sentNum) \o "t" \o ToString(tokenId)

generateDocumentURI(corpusRef, docTitle) == corpusRef \o "/" \o encodeURIComponent(docTitle)

\* tokens.map((_, tIdx) => generateTokenURI(sentURI, tIdx + 1))
tokenURIsOf(sentURI, tokens) == [i \in 1..Len(tokens) |-> generateTokenURI(sentURI, i)]

\* the entries of prefixMap, in order
prefixMap ==
  <<[uri |-> "http://www.w3.org/1999/02/22-rdf-syntax-ns#", name |-> "rdf"],
    [uri |-> "http://www.w3.org/2000/01/rdf-schema#", name |-> "rdfs"],
    [uri |-> "http://purl.org/dc/elements/1.1/", name |-> "dc"],
    [uri |-> "http://purl.org/powla/powla.owl#", name |-> "powla"],
    [uri |-> "http://lila-erc.eu/ontologies/lila_corpora#", name |-> "lila_corpus"],
    [uri |-> "http://lila-erc.eu/ontologies/lila#", name |-> "lilaOntology"],
    [uri |-> "http://www.w3.org/ns/oa#", name |-> "oa"],
    [uri |-> "http://www.w3.org/2001/XMLSchema#", name |-> "xsd"],
    [uri |-> "https://universaldependencies.org/u/dep/", name |-> "UD_tag"]>>

toPrefixedURI(uri) ==
  LET hits == {i \in 1..Len(prefixMap) : startsWith(uri, prefixMap[i].uri)}
      e == prefixMap[SetMin(hits)]
  IN IF hits = {} THEN uri
     ELSE e.name \o ":" \o SubSeq(uri, Len(e.uri) + 1, Len(uri))

POWLA == "http://purl.org/powla/powla.owl#"

LILA_CORPUS == "http://lila-erc.eu/ontologies/lila_corpora#"

DC == "http://purl.org/dc/elements/1.1/"

OA == "http://www.w3.org/ns/oa#"

DC_TERMS_CREATOR == "http://purl.org/dc/terms/creator"

RDFS_SEE_ALSO == "http://www.w3.org/2000/01/rdf-schema#seeAlso"

LILA_ONTOLOGY_HAS_LEMMA == "http://lila-erc.eu/ontologies/lila#hasLemma"

(***************************************************************************)
(* ttl.ts: MISC and lemma links                                            *)
(***************************************************************************)
\* JSON.parse of a value that is an array of plain strings; <<>> for any other
\* text, as the catch branch gives
parseLinkedURIs(value) ==
  LET v == trim(value)
      inner == trim(SubSeq(v, 2, Len(v) - 1))
      items == split(inner, ",")
      quoted(x) == Len(trim(x)) >= 2 /\ startsWith(trim(x), "\"") /\ endsWith(trim(x), "\"")
                   /\ ~includes(SubSeq(trim(x), 2, Len(trim(x)) - 1), "\"")
                   /\ ~includes(trim(x), "\\")
  IN IF Len(v) >= 2 /\ startsWith(v, "[") /\ endsWith(v, "]")
        /\ inner # "" /\ \A i \in 1..Len(items) : quoted(items[i])
     THEN [i \in 1..Len(items) |-> SubSeq(trim(items[i]), 2, Len(trim(items[i])) - 1)]
     ELSE <<>>

RECURSIVE linkedURIsIn(_, _)
\* parseMiscField(misc).LiITALinkedURIs || [] : the last such item of misc wins
linkedURIsIn(misc, result) ==
  IF Len(misc) = 0 THEN result
  ELSE LET item == misc[1]
           eqIndex == indexOf(item, "=")
       IN IF eqIndex # 0 /\ SubSeq(item, 1, eqIndex - 1) = "LiITALinkedURIs"
          THEN linkedURIsIn(Tail(misc), parseLinkedURIs(SubSeq(item, eqIndex + 1, Len(item))))
          ELSE linkedURIsIn(Tail(misc), result)

getLemmaPrefix_Always(uri) == "liitaLemma"

getLemmaPrefix(uri) ==
  IF includesWord(uri, "/hypolemma/") THEN "liitaIpoLemma" ELSE "liitaLemma"

extractLemmaId(uri) ==
  LET \* the digits matched by /\/id\/(?:hypo)?lemma\/(\d+)/ at position i of uri, or ""
      lemmaIdAt(i) ==
        LET rest == SubSeq(uri, i, Len(uri))
            tail == IF startsWith(rest, "/id/lemma/") THEN SubSeq(rest, 11, Len(rest))
                    ELSE IF startsWith(rest, "/id/hypolemma/") THEN SubSeq(rest, 15, Len(rest))
                    ELSE ""
            stops == {k \in 1..Len(tail) : Ch(tail, k) \notin Digits}
        IN IF stops = {} THEN tail ELSE SubSeq(tail, 1, SetMin(stops) - 1)
      hits == {i \in 1..Len(uri) : lemmaIdAt(i) # ""}
  IN IF hits = {} THEN "" ELSE lemmaIdAt(SetMin(hits))

featuresToUDURLs_None(feats) == <<>>

\* Object.entries(feats).map(...)
featuresToUDURLs(feats) ==
  IF feats = None THEN <<>>
  ELSE [i \in 1..Len(feats[1]) |->
          "https://universaldependencies.org/it/feat/" \o feats[1][i].key \o "#"
            \o feats[1][i].value]

(***************************************************************************)
(* ttl.ts: the builders of the graph nodes                                 *)
(***************************************************************************)
addAllPrefixes(doc) ==
  LET d1 == addPrefix(doc, "UD_tag", "https://universaldependencies.org/u/dep/")
      d2 == addPrefix(d1, "dc", "http://purl.org/dc/elements/1.1/")
      d3 == addPrefix(d2, "liitaIpoLemma", "http://liita.it/data/id/hypolemma/")
      d4 == addPrefix(d3, "liitaLemma", "http://liita.it/data/id/lemma/")
      d5 == addPrefix(d4, "lila", "http://liita.it/data/corpora/")
      d6 == addPrefix(d5, "lilaOntology", "http://lila-erc.eu/ontologies/lila/")
      d7 == addPrefix(d6, "lila_authors", "http://liita.it/data/corpora/id/authors/")
      d8 == addPrefix(d7, "lila_corpus", "http://lila-erc.eu/ontologies/lila_corpora/")
      d9 == addPrefix(d8, "oa", "http://www.w3.org/ns/oa#")
      d10 == addPrefix(d9, "ontolex", "http://www.w3.org/ns/lemon/ontolex#")
      d11 == addPrefix(d10, "owl", "http://www.w3.org/2002/07/owl#")
      d12 == addPrefix(d11, "powla", "http://purl.org/powla/powla.owl#")
      d13 == addPrefix(d12, "rdfs", "http://www.w3.org/2000/01/rdf-schema#")
  IN addPrefix(d13, "xsd", "http://www.w3.org/2001/XMLSchema#")

\* In the builders below the statements of the source apply inside out: the
\* innermost call is the first statement, the outermost the last
addDocumentMetadata(doc, docURI, corpusRefURI, metadata) ==
  addProperty(
    addProperty(
      addProperty(
        addStringProperty(
          addStringProperty(
            addStringProperty(
              addType(doc, docURI, toPrefixedURI(POWLA \o "Document")),
              docURI, toPrefixedURI(DC \o "contributor"), metadata.contributor),
            docURI, toPrefixedURI(DC \o "description"), metadata.description),
          docURI, toPrefixedURI(DC \o "title"), metadata.docTitle),
        docURI, DC_TERMS_CREATOR, metadata.docAuthor),
      docURI, toPrefixedURI(RDFS_SEE_ALSO), metadata.seeAlso),
    corpusRefURI, toPrefixedURI(POWLA \o "hasSubDocument"), docURI)

addDocumentLayer(doc, docURI, docTitle) ==
  addProperty(
    addStringProperty(
      addStringProperty(
        addType(doc, docURI \o "/DocumentLayer", toPrefixedURI(POWLA \o "DocumentLayer")),
        docURI \o "/DocumentLayer", toPrefixedURI(DC \o "description"),
        docTitle \o " Document Layer"),
      docURI \o "/DocumentLayer", toPrefixedURI(DC \o "title"), "Document Layer"),
    docURI \o "/DocumentLayer", toPrefixedURI(POWLA \o "hasDocument"), docURI)

addCitationStructureHeader(doc, docURI, docTitle, sentenceURIs) ==
  IF Len(sentenceURIs) = 0 THEN throw(doc, "sentenceURIs must not be empty")
  ELSE
    addProperty(
      addStringProperty(
        addStringProperty(
          addProperty(
            addProperties(
              addProperty(
                addType(doc, docURI \o "/CiteStructure",
                        toPrefixedURI(LILA_CORPUS \o "CitationStructure")),
                docURI \o "/CiteStructure", toPrefixedURI(LILA_CORPUS \o "first"),
                sentenceURIs[1]),
              docURI \o "/CiteStructure", toPrefixedURI(LILA_CORPUS \o "isLayer"),
              sentenceURIs),
            docURI \o "/CiteStructure", toPrefixedURI(LILA_CORPUS \o "last"),
            sentenceURIs[Len(sentenceURIs)]),
          docURI \o "/CiteStructure", toPrefixedURI(DC \o "description"),
          docTitle \o " Citation Layer"),
        docURI \o "/CiteStructure", toPrefixedURI(DC \o "title"), "Citation Layer"),
      docURI \o "/CiteStructure", toPrefixedURI(POWLA \o "hasDocument"), docURI)

\* if (object) addProperty(doc, subject, predicate, object)
addOptionalProperty(doc, subject, predicate, object) ==
  IF object # "" THEN addProperty(doc, subject, predicate, object) ELSE doc

\* the body shared, statement for statement, by addCitationDocument,
\* addCitationParagraph and addCitationSentence
addCitationUnit(doc, unitURI, childURIs, label, refValue, prevURI, nextURI, displayName) ==
  IF Len(childURIs) = 0 THEN doc
  ELSE
    addLabel(
      addOptionalProperty(
        addOptionalProperty(
          addProperties(
            addProperty(
              addStringProperty(
                addStringProperty(
                  addIntegerProperty(
                    addProperty(
                      addType(doc, unitURI, toPrefixedURI(LILA_CORPUS \o "citationUnit")),
                      unitURI, toPrefixedURI(LILA_CORPUS \o "first"), childURIs[1]),
                    unitURI, toPrefixedURI(LILA_CORPUS \o "hasCitLevel"), 1),
                  unitURI, toPrefixedURI(LILA_CORPUS \o "hasRefType"), label),
                unitURI, toPrefixedURI(LILA_CORPUS \o "hasRefValue"), refValue),
              unitURI, toPrefixedURI(LILA_CORPUS \o "last"), childURIs[Len(childURIs)]),
            unitURI, toPrefixedURI(POWLA \o "hasChild"), childURIs),
          unitURI, toPrefixedURI(POWLA \o "next"), nextURI),
        unitURI, toPrefixedURI(POWLA \o "previous"), prevURI),
      unitURI, displayName)

addCitationDocument(doc, docURI, docId, docIndex, childURIs, label, prevDocURI, nextDocURI) ==
  IF Len(childURIs) = 0 THEN throw(doc, "childURIs must not be empty")
  ELSE addCitationUnit(doc, docURI, childURIs, label,
                       IF docId # "" THEN docId ELSE labelIndex(label, docIndex),
                       prevDocURI, nextDocURI,
                       IF docId # "" THEN docId ELSE label \o " " \o ToString(docIndex))

addCitationParagraph(doc, paraURI, paraId, paraIndex, childURIs, label, prevParaURI, nextParaURI) ==
  IF Len(childURIs) = 0 THEN throw(doc, "childURIs must not be empty")
  ELSE addCitationUnit(doc, paraURI, childURIs, label,
                       IF paraId # "" THEN paraId ELSE labelIndex(label, paraIndex),
                       prevParaURI, nextParaURI,
                       IF paraId # "" THEN paraId ELSE label \o " " \o ToString(paraIndex))

\* addCitationSentence with the test of tokenURIs after the first statement
addCitationSentence_LateTest(doc, sentURI, tokenURIs, sentNum, totalSentences, prevSentURI, nextSentURI, sentenceLabel) ==
  IF Len(tokenURIs) = 0
  THEN throw(addType(doc, sentURI, toPrefixedURI(LILA_CORPUS \o "citationUnit")),
             "tokenURIs must not be empty")
  ELSE addCitationUnit(doc, sentURI, tokenURIs, sentenceLabel,
                       labelIndex(sentenceLabel, sentNum), prevSentURI, nextSentURI,
                       sentenceLabel \o " " \o ToString(sentNum))

addCitationSentence(doc, sentURI, tokenURIs, sentNum, totalSentences, prevSentURI, nextSentURI, sentenceLabel) ==
  IF Len(tokenURIs) = 0 THEN throw(doc, "tokenURIs must not be empty")
  ELSE addCitationUnit(doc, sentURI, tokenURIs, sentenceLabel,
                       labelIndex(sentenceLabel, sentNum), prevSentURI, nextSentURI,
                       sentenceLabel \o " " \o ToString(sentNum))

addToken(doc, tokenURI, token, docLayerURI, prevTokenURI, nextTokenURI) ==
  LET \* the block "Add lemma if present", lemmas being miscData.LiITALinkedURIs || []
      addLemma(d, lemmas, id) ==
        IF Len(lemmas) > 0 /\ id # ""
        THEN addProperty(d, tokenURI, toPrefixedURI(LILA_ONTOLOGY_HAS_LEMMA),
                         getLemmaPrefix(lemmas[1]) \o ":" \o id)
        ELSE d
      linkedURIs == IF token.misc = None THEN <<>> ELSE linkedURIsIn(token.misc[1], <<>>)
  IN addLabel(
       addOptionalProperty(
         addOptionalProperty(
           addStringProperty(
             addProperty(
               addLemma(addType(doc, tokenURI, toPrefixedURI(POWLA \o "Terminal")),
                        linkedURIs, extractLemmaId(linkedURIs[1])),
               tokenURI, toPrefixedURI(POWLA \o "hasLayer"), docLayerURI),
             tokenURI, toPrefixedURI(POWLA \o "hasStringValue"), token.form),
           tokenURI, toPrefixedURI(POWLA \o "next"), nextTokenURI),
         tokenURI, toPrefixedURI(POWLA \o "previous"), prevTokenURI),
       tokenURI, token.form)

RECURSIVE processTokensFrom(_, _, _, _, _)
\* the loop of processSentenceTokens from token tIdx (1-based) on
processTokensFrom(doc, tokens, tokenURIs, docLayerURI, tIdx) ==
  IF tIdx > Len(tokens) \/ aborted(doc) THEN doc
  ELSE processTokensFrom(
         addToken(doc, tokenURIs[tIdx], tokens[tIdx], docLayerURI,
                  IF tIdx > 1 THEN tokenURIs[tIdx - 1] ELSE "",
                  IF tIdx < Len(tokens) THEN tokenURIs[tIdx + 1] ELSE ""),
         tokens, tokenURIs, docLayerURI, tIdx + 1)

processSentenceTokens(doc, sentence, tokenURIs, docLayerURI) ==
  processTokensFrom(doc, sentence.tokens, tokenURIs, docLayerURI, 1)

\* sentURI || generateSentenceURI(corpusRef, ...) with the default corpusRef;
\* sentURI is "" when the caller passes none
finalSentURI(sentURI, docTitle, sentNum) ==
  IF sentURI # "" THEN sentURI
  ELSE generateSentenceURI("http://liita.it/data/corpora/Pirandelita/corpus", docTitle,
                           sentNum, "", None, "", None, "Document", "Paragraph")

processCitationSentence(doc, sentence, docTitle, sentNum, totalSentences, docLayerURI, prevSentURI, nextSentURI, sentenceLabel, sentURI) ==
  LET tokenURIs == tokenURIsOf(finalSentURI(sentURI, docTitle, sentNum), sentence.tokens)
  IN processSentenceTokens(
       addCitationSentence(doc, finalSentURI(sentURI, docTitle, sentNum), tokenURIs, sentNum,
                           totalSentences, prevSentURI, nextSentURI, sentenceLabel),
       sentence, tokenURIs, docLayerURI)

processSentenceTokensOnly_NoTokens(doc, sentence, docTitle, sentNum, docLayerURI, sentURI) == doc

processSentenceTokensOnly(doc, sentence, docTitle, sentNum, docLayerURI, sentURI) ==
  processSentenceTokens(doc, sentence,
                        tokenURIsOf(finalSentURI(sentURI, docTitle, sentNum), sentence.tokens),
                        docLayerURI)
\* the header without the test of the list
addUDAnnotationLayerHeader_NoTest(doc, docURI, docTitle, udSentURIs) == doc

addUDAnnotationLayerHeader(doc, docURI, docTitle, udSentURIs) ==
  IF Len(udSentURIs) = 0 THEN throw(doc, "udSentURIs must not be empty")
  ELSE
    addProperty(
      addStringProperty(
        addStringProperty(
          addProperty(
            addProperties(
              addProperty(
                addType(doc, docURI \o "/UDAnnotationLayer",
                        toPrefixedURI(LILA_CORPUS \o "SyntacticAnnotation")),
                docURI \o "/UDAnnotationLayer", toPrefixedURI(LILA_CORPUS \o "first"),
                udSentURIs[1]),
              docURI \o "/UDAnnotationLayer", toPrefixedURI(LILA_CORPUS \o "isLayer"),
              udSentURIs),
            docURI \o "/UDAnnotationLayer", toPrefixedURI(LILA_CORPUS \o "last"),
            udSentURIs[Len(udSentURIs)]),
          docURI \o "/UDAnnotationLayer", toPrefixedURI(DC \o "description"),
          docTitle \o " Universal Dependencies syntactic annotation layer"),
        docURI \o "/UDAnnotationLayer", toPrefixedURI(DC \o "title"),
        docTitle \o " UD Annotation Layer"),
      docURI \o "/UDAnnotationLayer", toPrefixedURI(POWLA \o "hasDocument"), docURI)

addUDSentence(doc, udSentURI, tokenURIs, sentNum, totalSentences, prevUdSentURI, nextUdSentURI) ==
  IF Len(tokenURIs) = 0 THEN throw(doc, "tokenURIs must not be empty")
  ELSE
    addLabel(
      addOptionalProperty(
        addOptionalProperty(
          addProperty(
            addProperties(
              addProperty(
                addStringProperty(
                  addStringProperty(
                    addIntegerProperty(
                      addType(doc, udSentURI, toPrefixedURI(POWLA \o "Root")),
                      udSentURI, toPrefixedURI(LILA_CORPUS \o "hasCitLevel"), 1),
                    udSentURI, toPrefixedURI(LILA_CORPUS \o "hasRefType"), "Sentence"),
                  udSentURI, toPrefixedURI(LILA_CORPUS \o "hasRefValue"),
                  "Sentence_" \o ToString(sentNum)),
                udSentURI, toPrefixedURI(POWLA \o "firstTerminal"), tokenURIs[1]),
              udSentURI, toPrefixedURI(POWLA \o "hasTerminal"), tokenURIs),
            udSentURI, toPrefixedURI(POWLA \o "lastTerminal"), tokenURIs[Len(tokenURIs)]),
          udSentURI, toPrefixedURI(POWLA \o "next"), nextUdSentURI),
        udSentURI, toPrefixedURI(POWLA \o "previous"), prevUdSentURI),
      udSentURI, "Sentence " \o ToString(sentNum))

\* headTokenURI is "" for undefined; a token URI is never the empty string, so
\* the branch "else if (headTokenURI)" is the whole else
addDependencyRelation(doc, depURI, token, depTokenURI, headTokenURI, udSentURI) ==
  LET \* token.deprel || 'root'
      deprel == IF token.deprel = None \/ token.deprel = Some("") THEN "root"
                ELSE token.deprel[1]
  IN addLabel(
       addProperty(
         addProperty(
           addProperty(doc, depURI, toPrefixedURI(RDF_TYPE), "UD_tag:" \o deprel),
           depURI, toPrefixedURI(LILA_CORPUS \o "hasDep"), depTokenURI),
         depURI, toPrefixedURI(LILA_CORPUS \o "hasHead"),
         IF token.deprel = Some("root") \/ headTokenURI = "" THEN udSentURI
         ELSE headTokenURI),
       depURI, "UD DepRel " \o deprel)

addMorphologyAnnotationLayerHeader(doc, docURI, docTitle) ==
  addProperty(
    addStringProperty(
      addStringProperty(
        addType(doc, docURI \o "/UDMorphologyAnnotationLayer",
                toPrefixedURI(POWLA \o "DocumentLayer")),
        docURI \o "/UDMorphologyAnnotationLayer", toPrefixedURI(DC \o "description"),
        docTitle \o " Morphology Annotation Layer"),
      docURI \o "/UDMorphologyAnnotationLayer", toPrefixedURI(DC \o "title"),
      "UD Morphology Annotation Layer"),
    docURI \o "/UDMorphologyAnnotationLayer", toPrefixedURI(POWLA \o "hasDocument"), docURI)

addMorphologyAnnotation(doc, morphURI, token, morphLayerURI, tokenURI) ==
  LET \* the hasBody statements
      addBodies(d, features) ==
        IF Len(features) > 0
        THEN addProperties(d, morphURI, toPrefixedURI(OA \o "hasBody"), features)
        ELSE addProperty(d, morphURI, toPrefixedURI(OA \o "hasBody"),
                         "https://universaldependencies.org/it/feat/")
  IN addProperty(
       addBodies(
         addLabel(
           addProperty(
             addType(doc, morphURI, toPrefixedURI(OA \o "Annotation")),
             morphURI, toPrefixedURI(POWLA \o "hasLayer"), morphLayerURI),
           morphURI, "UD Features of " \o token.form),
         featuresToUDURLs(token.feats)),
       morphURI, toPrefixedURI(OA \o "hasTarget"), tokenURI)

(***************************************************************************)
(* ttl.ts: conlluToTurtle, grouping of the sentences                       *)
(***************************************************************************)
\* document.sentences.filter((s) => s.tokens.length > 0)
\* the sentences, those of no token included
validSentences_All(document) == document.sentences

validSentences(document) == SelectSeq(document.sentences, LAMBDA s : Len(s.tokens) > 0)

RECURSIVE jsonEscape(_)
\* the text of a JSON string: quote, backslash and the control characters escaped
jsonEscape(s) ==
  IF Len(s) = 0 THEN ""
  ELSE IF Len(s) = 1
  THEN IF s = "\"" THEN "\\\""
       ELSE IF s = "\\" THEN "\\\\"
       ELSE IF s = "\n" THEN "\\n"
       ELSE IF s = "\t" THEN "\\t"
       ELSE s
  ELSE LET half == Len(s) \div 2
       IN jsonEscape(SubSeq(s, 1, half)) \o jsonEscape(SubSeq(s, half + 1, Len(s)))

\* JSON.stringify(comment): the properties a comment object can have, in the
\* order the parser and the callers write them
stringifyComment(comment) ==
  LET keys == SelectSeq(<<"type", "key", "value", "text", "id">>,
                        LAMBDA k : k \in DOMAIN comment)
      jsonString(x) == "\"" \o jsonEscape(x) \o "\""
  IN "{" \o join([i \in 1..Len(keys) |->
                    jsonString(keys[i]) \o ":" \o jsonString(comment[keys[i]])], ",") \o "}"

\* the match of \s*["']?([^"',}\s]+) at the start of s: the capture, "" when
\* there is none
captureAt(s) ==
  LET dropQuote(x) == IF startsWith(x, "\"") \/ startsWith(x, "'") THEN drop(x, 1) ELSE x
      upToStop(x) ==
        LET stops == {i \in 1..Len(x) : Ch(x, i) \in {"\"", "'", ",", "}"} \cup WhiteSpace}
        IN IF stops = {} THEN x ELSE SubSeq(x, 1, SetMin(stops) - 1)
  IN upToStop(dropQuote(trimStart(s)))

\* /[^"]*id[^"]*[:=]\s*["']?([^"',}\s]+)/i on rest, the text after an occurrence
\* of the word: both [^"]* are greedy, so the last separator that can be
\* followed by a capture is taken
jsonIdIn(rest) ==
  LET quotes == {i \in 1..Len(rest) : Ch(rest, i) = "\""}
      q == IF quotes = {} THEN Len(rest) ELSE SetMin(quotes) - 1
      seps == {k \in 1..q : Ch(rest, k) \in {":", "="} /\ captureAt(drop(rest, k)) # ""}
      ids == {j \in 1..(SetMax(seps) - 2) : toLowerCase(SubSeq(rest, j, j + 1)) = "id"}
  IN IF seps # {} /\ ids # {}
     THEN [matched |-> TRUE, id |-> captureAt(drop(rest, SetMax(seps)))]
     ELSE [matched |-> FALSE, id |-> ""]

\* commentStr.match(/<word>[^"]*id[^"]*[:=]\s*["']?([^"',}\s]+)/i), tried at the
\* occurrences of word from left to right: idMatch ? idMatch[1] : ''
jsonIdMatch(commentStr, word) ==
  LET after(p) == drop(commentStr, p + Len(word) - 1)
      hits == {p \in occurrences(commentStr, word) : jsonIdIn(after(p)).matched}
  IN IF hits = {} THEN "" ELSE jsonIdIn(after(SetMin(hits))).id

RECURSIVE markComments(_, _)
\* the loop over sentence.comments that fills group.newdoc and group.newpar
markComments(comments, group) ==
  LET \* if (commentStr.includes(word)) group[word] = { id: idMatch ? idMatch[1] : '' }
      fallback(g, commentStr, word) ==
        IF includesWord(commentStr, word)
        THEN [g EXCEPT ![word] = Some(jsonIdMatch(commentStr, word))]
        ELSE g
      \* the body of the loop, given the result of parseNewdocNewpar(comment)
      marked(parsed, comment) ==
        IF parsed # None
        THEN IF parsed[1].type = "newdoc"
             THEN [group EXCEPT !.newdoc = Some(parsed[1].id)]
             ELSE [group EXCEPT !.newpar = Some(parsed[1].id)]
        ELSE fallback(fallback(group, stringifyComment(comment), "newdoc"),
                      stringifyComment(comment), "newpar")
  IN IF Len(comments) = 0 THEN group
     ELSE markComments(Tail(comments), marked(parseNewdocNewpar(comments[1]), comments[1]))

\* group.newdoc and group.newpar are None or Some(id); index is 0-based
sentenceGroups(sentences) ==
  [idx \in 1..Len(sentences) |->
     markComments(sentences[idx].comments,
                  [sentence |-> sentences[idx], index |-> idx - 1,
                   newdoc |-> None, newpar |-> None])]

hasNewdoc(groups) == \E i \in 1..Len(groups) : groups[i].newdoc # None

hasNewpar(groups) == \E i \in 1..Len(groups) : groups[i].newpar # None

\* The grouping loop runs three blocks per sentence group on its state st.
\* currentDoc, when not null, is the last element of documents; currentPara is
\* "null", "last" (the last paragraph of currentDoc) or "free" (a paragraph
\* object that belongs to no document).
\* First block: a new document, marked or implicit
groupDocument(st, group, newdocs) ==
  LET pushDocument(docId) ==
        [st EXCEPT !.docCounter = @ + 1,
                   !.documents = Append(@, [docId |-> docId, docIndex |-> st.docCounter + 1,
                                            paragraphs |-> <<>>])]
  IN IF newdocs /\ group.newdoc # None
     THEN [pushDocument(group.newdoc[1]) EXCEPT !.paraCounter = 0, !.currentPara = "null"]
     ELSE IF Len(st.documents) = 0 /\ newdocs THEN pushDocument("")
     ELSE st

\* Second block: a new paragraph, marked or implicit
groupParagraph(st, group, newdocs, newpars) ==
  LET pushDocument(x, docId) ==
        [x EXCEPT !.docCounter = @ + 1,
                  !.documents = Append(@, [docId |-> docId, docIndex |-> x.docCounter + 1,
                                           paragraphs |-> <<>>])]
      pushParagraph(x, paraId, paraIndex) ==
        [x EXCEPT !.documents[Len(x.documents)].paragraphs =
                     Append(@, [paraId |-> paraId, paraIndex |-> paraIndex,
                                sentences |-> <<>>]),
                  !.currentPara = "last"]
      freeParagraph(x, paraId, paraIndex) ==
        [x EXCEPT !.currentPara = "free",
                  !.freePara = Some([paraId |-> paraId, paraIndex |-> paraIndex,
                                     sentences |-> <<>>])]
      counted == [st EXCEPT !.paraCounter = @ + 1]
      inDoc == IF Len(st.documents) = 0 /\ newdocs THEN pushDocument(counted, "")
               ELSE counted
  IN IF newpars /\ group.newpar # None
     THEN IF Len(inDoc.documents) > 0
          THEN pushParagraph(inDoc, group.newpar[1], inDoc.paraCounter)
          ELSE IF ~newdocs /\ inDoc.currentPara = "null"
          THEN freeParagraph([inDoc EXCEPT !.paraCounter = 1], group.newpar[1], 1)
          ELSE inDoc
     ELSE IF newpars /\ st.currentPara = "null"
     THEN IF Len(st.documents) > 0
          THEN pushParagraph(counted, "", counted.paraCounter)
          ELSE IF ~newdocs THEN freeParagraph(counted, "", counted.paraCounter)
          ELSE counted
     ELSE st

\* Third block: the sentence joins the current paragraph or, without
\* paragraphs, the direct sentences of the current document
groupSentence(st, group, newpars) ==
  LET d == Len(st.documents)
      direct == {i \in 1..Len(st.documents[d].paragraphs) :
                   st.documents[d].paragraphs[i].paraIndex = -1}
  IN IF newpars /\ st.currentPara = "last"
     THEN [st EXCEPT !.documents[d].paragraphs[Len(st.documents[d].paragraphs)].sentences =
                        Append(@, group)]
     ELSE IF newpars /\ st.currentPara = "free"
     THEN [st EXCEPT !.freePara = Some([st.freePara[1] EXCEPT !.sentences = Append(@, group)])]
     ELSE IF d > 0 /\ ~newpars
     THEN IF direct = {}
          THEN [st EXCEPT !.documents[d].paragraphs =
                  Append(@, [paraId |-> "", paraIndex |-> -1, sentences |-> <<group>>])]
          ELSE [st EXCEPT !.documents[d].paragraphs[SetMin(direct)].sentences =
                  Append(@, group)]
     ELSE st

RECURSIVE groupSentences(_, _, _, _)
\* the grouping loop
groupSentences(groups, st, newdocs, newpars) ==
  IF Len(groups) = 0 THEN st
  ELSE groupSentences(
         Tail(groups),
         groupSentence(
           groupParagraph(groupDocument(st, groups[1], newdocs), groups[1], newdocs, newpars),
           groups[1], newpars),
         newdocs, newpars)

\* const documents, after the grouping loop
documentsOf(groups) ==
  groupSentences(groups,
                 [documents |-> <<>>, currentPara |-> "null", freePara |-> None,
                  docCounter |-> 0, paraCounter |-> 0],
                 hasNewdoc(groups), hasNewpar(groups)).documents

RECURSIVE collectParagraphs(_, _, _)
\* the loop that fills allParagraphs
collectParagraphs(groups, allParagraphs, paraIdx) ==
  IF Len(groups) = 0 THEN allParagraphs
  ELSE
    LET group == groups[1]
        n == Len(allParagraphs)
    IN IF group.newpar # None
       THEN collectParagraphs(Tail(groups),
              Append(allParagraphs, [paraId |-> group.newpar[1], paraIndex |-> paraIdx + 1,
                                     sentences |-> <<group>>]),
              paraIdx + 1)
       ELSE IF n > 0
       THEN collectParagraphs(Tail(groups),
              [allParagraphs EXCEPT ![n].sentences = Append(@, group)], paraIdx)
       ELSE collectParagraphs(Tail(groups),
              Append(allParagraphs, [paraId |-> "", paraIndex |-> paraIdx + 1,
                                     sentences |-> <<group>>]),
              paraIdx + 1)

(***************************************************************************)
(* ttl.ts: conlluToTurtle, the citation layer.  env holds the constants of *)
(* one call: corpusRefURI, docTitle, docLayerURI, the three labels and the *)
(* number of valid sentences.                                              *)
(***************************************************************************)
\* the URI getSentenceURI returns; its write goes to the citationSentURIMap
\* declared inside the citation block, which no statement reads
getSentenceURI(env, sentNum, parentDocId, parentDocIndex, parentParaId, parentParaIndex) ==
  generateSentenceURI(env.corpusRefURI, env.docTitle, sentNum, parentDocId, parentDocIndex,
                      parentParaId, parentParaIndex, env.documentLabel, env.paragraphLabel)

documentCitationURI(env, docGroup) ==
  generateDocumentCitationURI(env.corpusRefURI, env.docTitle, docGroup.docId,
                              docGroup.docIndex, env.documentLabel)

paragraphCitationURI(env, para, parentDocId, parentDocIndex) ==
  generateParagraphCitationURI(env.corpusRefURI, env.docTitle, para.paraId, para.paraIndex,
                               env.paragraphLabel, parentDocId, parentDocIndex,
                               env.documentLabel)

RECURSIVE citationSentences(_, _, _, _, _, _)
\* the loop over the sentence groups of one parent; sentURIs[i] is the result of
\* getSentenceURI for sentences[i]; passURI tells whether the call of
\* processCitationSentence hands sentURI over
citationSentences(doc, env, sentences, sentURIs, passURI, sIdx) ==
  IF sIdx > Len(sentences) \/ aborted(doc) THEN doc
  ELSE citationSentences(
         processCitationSentence(doc, sentences[sIdx].sentence, env.docTitle,
                                 sentences[sIdx].index + 1, env.total, env.docLayerURI,
                                 IF sIdx > 1 THEN sentURIs[sIdx - 1] ELSE "",
                                 IF sIdx < Len(sentences) THEN sentURIs[sIdx + 1] ELSE "",
                                 env.sentenceLabel,
                                 IF passURI THEN sentURIs[sIdx] ELSE ""),
         env, sentences, sentURIs, passURI, sIdx + 1)

\* para.sentences.map of getSentenceURI under one parent
sentenceURIsOf(env, sentences, parentDocId, parentDocIndex, parentParaId, parentParaIndex) ==
  [i \in 1..Len(sentences) |->
     getSentenceURI(env, sentences[i].index + 1, parentDocId, parentDocIndex, parentParaId,
                    parentParaIndex)]

\* a paragraph unit followed by its sentences
citationParagraph(doc, env, para, paraURI, sentURIs, prevParaURI, nextParaURI, passURI) ==
  citationSentences(
    addCitationParagraph(doc, paraURI, para.paraId, para.paraIndex, sentURIs,
                         env.paragraphLabel, prevParaURI, nextParaURI),
    env, para.sentences, sentURIs, passURI, 1)

RECURSIVE documentParagraphs(_, _, _, _)
\* the loop over docGroup.paragraphs
documentParagraphs(doc, env, docGroup, pIdx) ==
  IF pIdx > Len(docGroup.paragraphs) \/ aborted(doc) THEN doc
  ELSE
    LET para == docGroup.paragraphs[pIdx]
        \* the URI of the paragraph at q when there is one that is no group of
        \* direct sentences, else undefined
        neighbourURI(q) ==
          IF q \in 1..Len(docGroup.paragraphs) /\ docGroup.paragraphs[q].paraIndex # -1
          THEN paragraphCitationURI(env, docGroup.paragraphs[q], docGroup.docId,
                                    Some(docGroup.docIndex))
          ELSE ""
    IN documentParagraphs(
         IF para.paraIndex = -1
         THEN citationSentences(doc, env, para.sentences,
                sentenceURIsOf(env, para.sentences, docGroup.docId, Some(docGroup.docIndex),
                               "", None),
                TRUE, 1)
         ELSE citationParagraph(doc, env, para,
                paragraphCitationURI(env, para, docGroup.docId, Some(docGroup.docIndex)),
                sentenceURIsOf(env, para.sentences, docGroup.docId, Some(docGroup.docIndex),
                               para.paraId, Some(para.paraIndex)),
                neighbourURI(pIdx - 1), neighbourURI(pIdx + 1), TRUE),
         env, docGroup, pIdx + 1)

\* childURIs of a document group
documentChildURIs(env, docGroup) ==
  LET paras == docGroup.paragraphs
      hasDirectSentences == Len(paras) > 0 /\ paras[1].paraIndex = -1
      normal == SelectSeq(paras, LAMBDA para : para.paraIndex # -1)
  IN IF hasDirectSentences
     THEN sentenceURIsOf(env, paras[1].sentences, docGroup.docId, Some(docGroup.docIndex),
                         "", None)
     ELSE [i \in 1..Len(normal) |->
             paragraphCitationURI(env, normal[i], docGroup.docId, Some(docGroup.docIndex))]

RECURSIVE citationDocuments(_, _, _, _)
\* the documents -> paragraphs -> sentences branch
citationDocuments(doc, env, documents, dIdx) ==
  IF dIdx > Len(documents) \/ aborted(doc) THEN doc
  ELSE
    LET docGroup == documents[dIdx]
        \* childURIs.length > 0 ? childURIs : [getSentenceURI(1, docId, docIndex)]
        orFirstSentence(childURIs) ==
          IF Len(childURIs) > 0 THEN childURIs
          ELSE <<getSentenceURI(env, 1, docGroup.docId, Some(docGroup.docIndex), "", None)>>
    IN citationDocuments(
         documentParagraphs(
           addCitationDocument(doc, documentCitationURI(env, docGroup), docGroup.docId,
             docGroup.docIndex, orFirstSentence(documentChildURIs(env, docGroup)),
             env.documentLabel,
             IF dIdx > 1 THEN documentCitationURI(env, documents[dIdx - 1]) ELSE "",
             IF dIdx < Len(documents) THEN documentCitationURI(env, documents[dIdx + 1])
             ELSE ""),
           env, docGroup, 1),
         env, documents, dIdx + 1)

RECURSIVE citationParagraphs(_, _, _, _)
\* the paragraphs -> sentences branch
citationParagraphs(doc, env, allParagraphs, pIdx) ==
  IF pIdx > Len(allParagraphs) \/ aborted(doc) THEN doc
  ELSE
    citationParagraphs(
      citationParagraph(doc, env, allParagraphs[pIdx],
        paragraphCitationURI(env, allParagraphs[pIdx], "", None),
        sentenceURIsOf(env, allParagraphs[pIdx].sentences, "", None,
                       allParagraphs[pIdx].paraId, Some(allParagraphs[pIdx].paraIndex)),
        IF pIdx > 1 THEN paragraphCitationURI(env, allParagraphs[pIdx - 1], "", None)
        ELSE "",
        IF pIdx < Len(allParagraphs)
        THEN paragraphCitationURI(env, allParagraphs[pIdx + 1], "", None)
        ELSE "",
        FALSE),
      env, allParagraphs, pIdx + 1)

\* sentence URIs without a parent, one per valid sentence
flatSentenceURIs(env) ==
  [i \in 1..env.total |-> getSentenceURI(env, i, "", None, "", None)]

topLevelURIs(env, groups) ==
  LET documentURIs(documents) ==
        [i \in 1..Len(documents) |-> documentCitationURI(env, documents[i])]
      paragraphURIs(allParagraphs) ==
        [i \in 1..Len(allParagraphs) |->
           paragraphCitationURI(env, allParagraphs[i], "", None)]
  IN IF hasNewdoc(groups) THEN documentURIs(documentsOf(groups))
     ELSE IF hasNewpar(groups) THEN paragraphURIs(collectParagraphs(groups, <<>>, 0))
     ELSE flatSentenceURIs(env)

\* the units of the hierarchy the markers give
citationUnits(doc, env, groups) ==
  IF hasNewdoc(groups) THEN citationDocuments(doc, env, documentsOf(groups), 1)
  ELSE IF hasNewpar(groups)
  THEN citationParagraphs(doc, env, collectParagraphs(groups, <<>>, 0), 1)
  ELSE citationSentences(doc, env, groups, flatSentenceURIs(env), TRUE, 1)

\* the block of conlluToTurtle run when includeCitationLayer holds: the header
\* over the top-level units, then the units
citationLayer(doc, env, sentences) ==
  citationUnits(
    IF Len(topLevelURIs(env, sentenceGroups(sentences))) > 0
    THEN addCitationStructureHeader(doc, env.docURI, env.docTitle,
                                    topLevelURIs(env, sentenceGroups(sentences)))
    ELSE doc,
    env, sentenceGroups(sentences))

RECURSIVE tokensOnly(_, _, _, _)
\* the block run when includeCitationLayer does not hold
tokensOnly(doc, env, sentences, sIdx) ==
  IF sIdx > Len(sentences) \/ aborted(doc) THEN doc
  ELSE tokensOnly(
         processSentenceTokensOnly(doc, sentences[sIdx], env.docTitle, sIdx, env.docLayerURI,
                                   flatSentenceURIs(env)[sIdx]),
         env, sentences, sIdx + 1)

(***************************************************************************)
(* ttl.ts: conlluToTurtle, the UD and morphology layers.  A map from the   *)
(* 0-based sentence index to a URI is a function on a set of indices, <<>>  *)
(* when the map is empty.                                                  *)
(***************************************************************************)
\* the map after citationSentURIMap.set(i, uri) for every valid sentence
flatMap(env) == [i \in 0..(env.total - 1) |-> flatSentenceURIs(env)[i + 1]]

\* citationSentURIMap.get(sIdx) || generateSentenceURI(...)
citationSentURI(env, map, sIdx) ==
  IF sIdx \in DOMAIN map /\ map[sIdx] # "" THEN map[sIdx]
  ELSE getSentenceURI(env, sIdx + 1, "", None, "", None)

\* tokenURIs[headIndex] when the head names a token of the sentence, else ""
headTokenURI(token, tokenURIs) ==
  LET head == IF token.head = None THEN "" ELSE token.head[1]
      \* the digits parseInt(head, 10) reads; "" makes it NaN, which fails both
      \* comparisons below as an undefined headIndex does
      stops == {i \in 1..Len(head) : Ch(head, i) \notin Digits}
      digits == IF stops = {} THEN head ELSE SubSeq(head, 1, SetMin(stops) - 1)
      headIndex == IF head \notin {"", "_", "0"} /\ digits # ""
                   THEN Some(Number(digits) - 1) ELSE None
  IN IF headIndex # None /\ headIndex[1] >= 0 /\ headIndex[1] < Len(tokenURIs)
     THEN tokenURIs[headIndex[1] + 1] ELSE ""

RECURSIVE dependencyRelations(_, _, _, _, _, _)
dependencyRelations(doc, env, sentence, sentNum, tokenURIs, tIdx) ==
  IF tIdx > Len(sentence.tokens) \/ aborted(doc) THEN doc
  ELSE dependencyRelations(
         addDependencyRelation(doc,
           generateUDDepURI(env.corpusRefURI, env.docTitle, sentNum, tIdx),
           sentence.tokens[tIdx], tokenURIs[tIdx],
           headTokenURI(sentence.tokens[tIdx], tokenURIs),
           generateUDLayerSentenceURI(env.corpusRefURI, env.docTitle, sentNum)),
         env, sentence, sentNum, tokenURIs, tIdx + 1)

udSentURIs(env) ==
  [i \in 1..env.total |-> generateUDLayerSentenceURI(env.corpusRefURI, env.docTitle, i)]

RECURSIVE udSentences(_, _, _, _, _, _)
\* the loop over the valid sentences of the UD layer
udSentences(doc, env, sentences, map, includeMorphologicalLayer, sentNum) ==
  IF sentNum > Len(sentences) \/ aborted(doc) THEN doc
  ELSE
    LET tokenURIs == tokenURIsOf(citationSentURI(env, map, sentNum - 1),
                                 sentences[sentNum].tokens)
        \* if (includeMorphologicalLayer) the dependency relations of the sentence
        withRelations(d) ==
          IF includeMorphologicalLayer
          THEN dependencyRelations(d, env, sentences[sentNum], sentNum, tokenURIs, 1)
          ELSE d
    IN udSentences(
         withRelations(
           addUDSentence(doc, udSentURIs(env)[sentNum], tokenURIs, sentNum, env.total,
                         IF sentNum > 1 THEN udSentURIs(env)[sentNum - 1] ELSE "",
                         IF sentNum < env.total THEN udSentURIs(env)[sentNum + 1] ELSE "")),
         env, sentences, map, includeMorphologicalLayer, sentNum + 1)

\* the map the UD and morphology layers read: filled when it is empty
filledMap(env, map) == IF DOMAIN map = {} THEN flatMap(env) ELSE map

udLayer(doc, env, sentences, map, includeMorphologicalLayer) ==
  udSentences(addUDAnnotationLayerHeader(doc, env.docURI, env.docTitle, udSentURIs(env)),
              env, sentences, filledMap(env, map), includeMorphologicalLayer, 1)

RECURSIVE morphologyTokens(_, _, _, _, _, _)
morphologyTokens(doc, env, sentences, map, sentNum, tIdx) ==
  IF sentNum > Len(sentences) \/ aborted(doc) THEN doc
  ELSE IF tIdx > Len(sentences[sentNum].tokens)
  THEN morphologyTokens(doc, env, sentences, map, sentNum + 1, 1)
  ELSE morphologyTokens(
         addMorphologyAnnotation(doc,
           generateMorphologyAnnotationURI(env.corpusRefURI, env.docTitle, sentNum, tIdx),
           sentences[sentNum].tokens[tIdx], env.docURI \o "/UDMorphologyAnnotationLayer",
           generateTokenURI(citationSentURI(env, map, sentNum - 1), tIdx)),
         env, sentences, map, sentNum, tIdx + 1)

morphologyLayer(doc, env, sentences, map) ==
  morphologyTokens(addMorphologyAnnotationLayerHeader(doc, env.docURI, env.docTitle),
                   env, sentences, map, 1, 1)

(***************************************************************************)
(* The source pipeline as a state machine: a text is parsed, validated,    *)
(* and serialized into the text of the next round                          *)
(***************************************************************************)
\* rounds of parse, validate, serialize per input text
MaxRounds == 2

RegularLine == <<"1", "a", "l", "N", "_", "_", "0", "root", "_", "_">>

MultiwordLine == <<"1-2", "ab", "_", "_", "_", "_", "_", "_", "_", "_">>

EmptyNodeLine == <<"1.1", "e", "l", "N", "_", "_", "_", "_", "1:dep", "_">>

\* values injected into one field of a token line
FieldAlternatives == {"_", "", "x", "3", "B=2|A=1", "Typo=Yes", "x y"}

\* values injected into MISC only
MiscAlternatives == {" x", "x ", "x\fy", "k=v|SpaceAfter=No"}

\* a line that stops after DEPS
ShortLine == SubSeq(RegularLine, IDX_ID, IDX_DEPS)

TokenLines ==
  {join([base EXCEPT ![i] = v], "\t") :
     base \in {RegularLine, MultiwordLine, EmptyNodeLine},
     i \in IDX_LEMMA..IDX_MISC, v \in FieldAlternatives}
  \cup {join([base EXCEPT ![IDX_MISC] = v], "\t") :
          base \in {RegularLine, MultiwordLine, EmptyNodeLine}, v \in MiscAlternatives}
  \cup {join(ShortLine, "\t"), "x"}

CHeaders ==
  {<<>>,
   <<"# sent_id = 1", "# text = a">>,
   <<"# note", "# text = a b">>,
   <<"# k=v=w", "# sent_id = 1", "# text = a">>}

\* what follows the first sentence
CTails ==
  {"",
   "\n\n# sent_id = 2\n# text = b\n1-2\tbc\t_\t_\t_\t_\t_\t_\t_\t_\n1\tb\t_\t_\t_\tA=1\t0\troot\t_\tk=v\n",
   "\n\n# text = b\n1\tb\t_\t_\t_\t_\t0\troot\t_\t_\n\n# sent_id = 3\n\n1\tc\t_\t_\t_\t_\t0\troot\t_\t_"}

CTexts == {join(h \o <<l>>, "\n") \o t : h \in CHeaders, l \in TokenLines, t \in CTails}

\* no conversion is running
MIdle ==
  /\ minput = <<>>
  /\ mctx = <<>>

TIdle ==
  /\ tdoc = [prefixes |-> <<>>, triples |-> <<>>]
  /\ tout = [lines |-> <<>>, text |-> ""]
  /\ tread = <<>>
  /\ tpc = "idle"
  /\ MIdle

CInit ==
  /\ ctexts \in {<<t>> : t \in CTexts}
  /\ cdocs = <<>>
  /\ cvals = <<>>
  /\ TIdle

ParseSource ==
  /\ Len(cdocs) < Len(ctexts)
  /\ cdocs' = Append(cdocs, parse(ctexts[Len(cdocs) + 1]))
  /\ UNCHANGED <<ctexts, cvals, tvars, mvars>>

ValidateSource ==
  /\ Len(cvals) < Len(cdocs)
  /\ cvals' = Append(cvals, validate(ctexts[Len(cvals) + 1]))
  /\ UNCHANGED <<ctexts, cdocs, tvars, mvars>>

SerializeSource ==
  /\ Len(cvals) = Len(ctexts)
  /\ Len(ctexts) < MaxRounds
  /\ ctexts' = Append(ctexts, serialize(cdocs[Len(cdocs)]))
  /\ UNCHANGED <<cdocs, cvals, tvars, mvars>>

CNext == ParseSource \/ ValidateSource \/ SerializeSource

SpecConllu == CInit /\ [][CNext]_vars

(***************************************************************************)
(* Properties of the source pipeline                                       *)
(***************************************************************************)
\* FEATS as the set of its key/value pairs: object equality ignores key order
featsSet(opt) == IF opt = None THEN None ELSE Some({opt[1][i] : i \in 1..Len(opt[1])})

sameToken(a, b) ==
  /\ [a EXCEPT !.feats = None] = [b EXCEPT !.feats = None]
  /\ featsSet(a.feats) = featsSet(b.feats)

sameSentence(a, b) ==
  /\ a.comments = b.comments
  /\ Len(a.tokens) = Len(b.tokens)
  /\ \A i \in 1..Len(a.tokens) : sameToken(a.tokens[i], b.tokens[i])

sameDocument(a, b) ==
  /\ Len(a.sentences) = Len(b.sentences)
  /\ \A i \in 1..Len(a.sentences) : sameSentence(a.sentences[i], b.sentences[i])

\* C8: for every source text t, parse(serialize(parse(t))) equals parse(t):
\* the same sentences, comments, tokens and token fields, absent fields
\* staying absent and present fields staying present.
C8_ParseSerializeRoundTrip ==
  \A k \in 2..Len(cdocs) : sameDocument(cdocs[k], cdocs[k - 1])

\* C9: for every source text t on which validate reports no errors, validate
\* reports no errors on serialize(parse(t)).
C9_ValidStaysValid ==
  \A k \in 2..Len(cvals) : cvals[k - 1].isValid => cvals[k].isValid

\* a token line that violates the field restrictions of its category
FieldViolation(line) ==
  LET fields == split(line, "\t")
      id == fields[IDX_ID]
  IN /\ Len(fields) >= FieldCount
     /\ \/ /\ isMultiwordToken(id)
           /\ \E i \in {IDX_LEMMA, IDX_UPOS, IDX_XPOS, IDX_HEAD, IDX_DEPREL, IDX_DEPS} :
                fields[i] # "_"
        \/ /\ isEmptyNode(id)
           /\ (fields[IDX_DEPS] = "_" \/ fields[IDX_HEAD] # "_" \/ fields[IDX_DEPREL] # "_")
        \/ /\ isRegularToken(id)
           /\ ~isDigits(fields[IDX_HEAD])

ViolatingLines(text) ==
  LET lines == split(trim(text), "\n")
  IN {i \in 1..Len(lines) : FieldViolation(trim(lines[i]))}

\* C10: validate returns at least one error for each injected violation of the
\* per-category field restrictions (multiword token with a non-underscore
\* restricted field, empty node with DEPS "_" or a non-underscore HEAD or DEPREL,
\* regular token with a non-numeric HEAD): an error is reported for that line.
C10_ViolationReported ==
  \A k \in 1..Len(cvals) : \A i \in ViolatingLines(ctexts[k]) :
    /\ ~cvals[k].isValid
    /\ \E e \in 1..Len(cvals[k].errors) : startsWith(cvals[k].errors[e], Line(i))

\* a validated text whose only violation is an empty node with DEPS "_"
C10_Witness ==
  /\ Len(cvals) >= 1
  /\ ViolatingLines(ctexts[1]) # {}
  /\ \E i \in ViolatingLines(ctexts[1]) :
       LET fields == split(trim(split(trim(ctexts[1]), "\n")[i]), "\t")
       IN isEmptyNode(fields[IDX_ID]) /\ fields[IDX_DEPS] = "_"
          /\ fields[IDX_HEAD] = "_" /\ fields[IDX_DEPREL] = "_"
  /\ Len(cvals[1].errors) = 1

\* a token line, as validate reads it, whose MISC field parseMisc rejects
MiscViolation(line) ==
  LET fields == split(line, "\t")
  IN Len(fields) >= FieldCount /\ parseMisc(fields[IDX_MISC]).thrown

MiscViolatingLines(text) ==
  LET lines == split(trim(text), "\n")
  IN {i \in 1..Len(lines) : MiscViolation(trim(lines[i]))}

\* C11: validate accumulates a diagnostic for every token line whose MISC
\* field violates the misc constraints (empty, a control character, a leading
\* or trailing space): the result is invalid and has an error for that line.
C11_MiscViolationReported ==
  \A k \in 1..Len(cvals) : \A i \in MiscViolatingLines(ctexts[k]) :
    /\ ~cvals[k].isValid
    /\ \E e \in 1..Len(cvals[k].errors) : startsWith(cvals[k].errors[e], Line(i))

\* the lines of a source text as parse and validate read them
TrimmedLines(text) == mapSeq(trim, split(trim(text), "\n"))

\* a line that yields a token
IsTokenLine(line) ==
  line # "" /\ ~startsWith(line, "#") /\ Len(split(line, "\t")) >= FieldCount

\* a metadata comment of the given key
IsMetadata(line, key) ==
  /\ startsWith(line, "#")
  /\ parseComment(line).type = "metadata"
  /\ parseComment(line).key = key

\* the blank-line-delimited blocks, counted from 1, that have a token line
\* and no metadata comment of the given key
BlocksMissing(lines, key) ==
  LET blank == {i \in 1..Len(lines) : lines[i] = ""}
      block(i) == 1 + Cardinality({j \in blank : j < i})
  IN {block(i) : i \in {x \in 1..Len(lines) : IsTokenLine(lines[x])}}
       \ {block(i) : i \in {x \in 1..Len(lines) : IsMetadata(lines[x], key)}}

MissingMessages(lines, key) ==
  {"Sentence " \o ToString(n) \o ": Missing required " \o key \o " comment" :
     n \in BlocksMissing(lines, key)}

SentenceErrors(result) ==
  {result.errors[e] : e \in {x \in 1..Len(result.errors) :
                               startsWith(result.errors[x], "Sentence ")}}

\* what validate is to report on missing metadata for the given lines
ExpectedSentenceErrors(lines) ==
  MissingMessages(lines, "sent_id") \cup MissingMessages(lines, "text")

\* C12: validate reports a missing-sent_id (missing-text) diagnostic for
\* exactly the blank-line-delimited blocks that hold at least one token line
\* and no sent_id (text) metadata comment; a comment of one block does not
\* count for another block.
C12_MissingMetadataPerBlock ==
  \A k \in 1..Len(cvals) :
    SentenceErrors(cvals[k]) = ExpectedSentenceErrors(TrimmedLines(ctexts[k]))

\* a validated text of four blocks: the first has both comments, the second
\* lacks sent_id, the third is a lone sent_id comment, the fourth lacks both
C12_Witness ==
  /\ Len(cvals) >= 1
  /\ BlocksMissing(TrimmedLines(ctexts[1]), "sent_id") = {2, 4}
  /\ BlocksMissing(TrimmedLines(ctexts[1]), "text") = {4}
  /\ Cardinality(SentenceErrors(cvals[1])) = 3

\* the lines of a text as written, before any trimming
RawLines(text) == split(text, "\n")

\* a line written with all its fields and a FEATS or MISC value (field f)
\* that parseFeats or parseMisc rejects
MalformedField(fields, f) ==
  /\ Len(fields) >= FieldCount
  /\ ~startsWith(trim(fields[IDX_ID]), "#")
  /\ \/ f = IDX_FEATS /\ parseFeats(fields[f]).thrown
     \/ f = IDX_MISC /\ parseMisc(fields[f]).thrown

\* the text of the lines with field f of line i written "_"
WithUnderscore(lines, i, f) ==
  join([lines EXCEPT ![i] = join([split(lines[i], "\t") EXCEPT ![f] = "_"], "\t")], "\n")

MalformedFieldAbsent(document, lines) ==
  \A i \in 1..Len(lines) : \A f \in {IDX_FEATS, IDX_MISC} :
    MalformedField(split(lines[i], "\t"), f) => document = parse(WithUnderscore(lines, i, f))

\* C13: a malformed FEATS or MISC value never aborts parsing: the token is
\* created with only that field absent, and the document is the one parse
\* gives for the same text with that field written "_".
C13_MalformedFieldAbsent ==
  \A k \in 1..Len(cdocs) : MalformedFieldAbsent(cdocs[k], RawLines(ctexts[k]))

\* a line that is neither blank nor a comment and has fewer fields than a
\* token line
IsShortLine(line) ==
  trim(line) # "" /\ ~startsWith(trim(line), "#") /\ Len(split(trim(line), "\t")) < FieldCount

ShortLines(lines) == {i \in 1..Len(lines) : IsShortLine(lines[i])}

\* the text of the lines with line i taken out
WithoutLine(lines, i) == join(SubSeq(lines, 1, i - 1) \o SubSeq(lines, i + 1, Len(lines)), "\n")

ShortLinesSkipped(document, lines) ==
  \A i \in ShortLines(lines) :
    DOMAIN document = {"sentences"} /\ document = parse(WithoutLine(lines, i))

\* C14: a non-comment line with fewer than 10 tab-separated fields is
\* skipped: parse returns a document, with no token for that line, equal to
\* the document of the text without the line.
C14_ShortLineSkipped ==
  \A k \in 1..Len(cdocs) : ShortLinesSkipped(cdocs[k], RawLines(ctexts[k]))

\* a parsed text whose first block is two comments and a line of nine fields,
\* followed by a second sentence: the first sentence has no token
C14_Witness ==
  /\ Len(cdocs) >= 1
  /\ 3 \in ShortLines(RawLines(ctexts[1]))
  /\ Len(split(RawLines(ctexts[1])[3], "\t")) = FieldCount - 1
  /\ Len(cdocs[1].sentences) = 2
  /\ Len(cdocs[1].sentences[1].comments) = 2
  /\ Len(cdocs[1].sentences[1].tokens) = 0
  /\ Len(cdocs[1].sentences[2].tokens) = 2

\* C15, as stated: parseSource throws when the text has a token line that
\* violates the field count, and returns a Document otherwise.
C15_ThrowsOnFieldCount ==
  \A k \in 1..Len(cdocs) :
    ("thrown" \in DOMAIN cdocs[k]) <=> ShortLines(RawLines(ctexts[k])) # {}

RECURSIVE TokenTotal(_)
\* the number of tokens of a sequence of sentences
TokenTotal(sentences) ==
  IF Len(sentences) = 0 THEN 0
  ELSE Len(sentences[1].tokens) + TokenTotal(Tail(sentences))

TokenLineCount(lines) == Cardinality({i \in 1..Len(lines) : IsTokenLine(lines[i])})

\* C15, amended: parseSource never throws; for every text it returns a
\* Document, which holds one token for each line of at least 10 fields and
\* none for a line that violates the field count.
C15_ReturnsDocument ==
  \A k \in 1..Len(cdocs) :
    /\ DOMAIN cdocs[k] = {"sentences"}
    /\ TokenTotal(cdocs[k].sentences) = TokenLineCount(TrimmedLines(ctexts[k]))

\* a parsed text that opens with a line of a single field and goes on with
\* two well-formed token lines: a Document with two tokens
C15_Witness ==
  /\ Len(cdocs) >= 1
  /\ \E i \in ShortLines(RawLines(ctexts[1])) : Len(split(RawLines(ctexts[1])[i], "\t")) = 1
  /\ DOMAIN cdocs[1] = {"sentences"}
  /\ TokenTotal(cdocs[1].sentences) = 2

(***************************************************************************)
(* turtle.ts: the minimal reader, parse                                    *)
(***************************************************************************)
parseTurtle(turtleString) ==
  LET \* the first position from i on whose character is not in chars
      endOf(line, i, chars) ==
        SetMin({j \in i..(Len(line) + 1) : j > Len(line) \/ Ch(line, j) \notin chars})
      \* /@prefix\s+(\w+):\s*<([^>]+)>\s*\./ with "@prefix" at position i: the
      \* ends of \s+, \w+, \s*, [^>]+ and \s* in turn
      name(line, i) == endOf(line, endOf(line, i + 7, WhiteSpace), WordChars)
      open(line, i) == endOf(line, name(line, i) + 1, WhiteSpace)
      close(line, i) == indexOfFrom(line, ">", open(line, i) + 1)
      \* the character at position j, "" past the end
      at(line, j) == IF j <= Len(line) THEN Ch(line, j) ELSE ""
      matchesAt(line, i) ==
        /\ i + 6 <= Len(line)
        /\ SubSeq(line, i, i + 6) = "@prefix"
        /\ endOf(line, i + 7, WhiteSpace) > i + 7
        /\ name(line, i) > endOf(line, i + 7, WhiteSpace)
        /\ at(line, name(line, i)) = ":"
        /\ at(line, open(line, i)) = "<"
        /\ close(line, i) > open(line, i) + 1
        /\ at(line, endOf(line, close(line, i) + 1, WhiteSpace)) = "."
      matches(line) == {i \in 1..Len(line) : matchesAt(line, i)}
      withPrefix(doc, line, i) ==
        addPrefix(doc, SubSeq(line, endOf(line, i + 7, WhiteSpace), name(line, i) - 1),
                  SubSeq(line, open(line, i) + 1, close(line, i) - 1))
      \* parts[1].replace(' .', '')
      dropDot(part) ==
        IF includes(part, " .")
        THEN SubSeq(part, 1, indexOf(part, " .") - 1)
               \o SubSeq(part, indexOf(part, " .") + 2, Len(part))
        ELSE part
      withLine(doc, line) ==
        IF startsWith(line, "@prefix")
        THEN IF matches(line) # {} THEN withPrefix(doc, line, SetMin(matches(line))) ELSE doc
        ELSE IF includes(line, " a ") /\ endsWith(line, ".") /\ Len(split(line, " a ")) = 2
        THEN addTriple(doc, trim(split(line, " a ")[1]), RDF_TYPE,
                       iri(trim(dropDot(split(line, " a ")[2]))))
        ELSE doc
      RECURSIVE read(_, _)
      read(lines, doc) ==
        IF Len(lines) = 0 THEN doc ELSE read(Tail(lines), withLine(doc, lines[1]))
  IN read(SelectSeq(mapSeq(trim, split(turtleString, "\n")), LAMBDA line : line # ""),
          createDocument)

(***************************************************************************)
(* The graph model as a state machine: callers add prefixes and triples in *)
(* any order, then serialize.                                              *)
(***************************************************************************)
MaxTriples == 3

MaxPrefixes == 2

TPrefixes == {[prefix |-> "ex", uri |-> "http://example.org/"]}

TSubjects == {"http://example.org/s", "_:b1"}

TPredicates == {"rdf:type", "ex:p", "http://example.org/q"}

TObjects == {iri("ex:o"),
             literal("42", XSD_INTEGER, ""),
             literal("v", "http://www.w3.org/2001/XMLSchema#string", "")}

\* subjects of 58 and of 59 characters: written in angle brackets they are 60
\* and 61 characters long
TLongSubjects ==
  {"http://example.org/corpus/My%20Doc/CiteStructure/s11111/t1",
   "http://example.org/corpus/My%20Doc/CiteStructure/s111111/t1"}

\* the values one caller draws the arguments of addTriple from
TCallers ==
  {[subjects |-> TSubjects, predicates |-> TPredicates, objects |-> TObjects],
   [subjects |-> TLongSubjects, predicates |-> {"rdf:type", "ex:p"},
    objects |-> {iri("ex:o"), iri("ex:q")}]}

\* the source pipeline when a specification does not use it
CIdle ==
  /\ ctexts = <<>>
  /\ cdocs = <<>>
  /\ cvals = <<>>

TInit ==
  /\ tdoc = createDocument
  /\ tout = [lines |-> <<>>, text |-> ""]
  /\ tread = <<>>
  /\ tpc = "build"
  /\ CIdle
  /\ minput = [addPrefix |-> <<>>, addTriple |-> <<>>]
  /\ mctx = <<>>

AddPrefix ==
  /\ tpc = "build"
  /\ Len(minput.addPrefix) < MaxPrefixes
  /\ \E p \in TPrefixes :
       /\ tdoc' = addPrefix(tdoc, p.prefix, p.uri)
       /\ minput' = [minput EXCEPT !.addPrefix = Append(@, <<p.prefix, p.uri>>)]
  /\ UNCHANGED <<tout, tread, tpc, mctx, cvars>>

AddTriple ==
  /\ tpc = "build"
  /\ Len(minput.addTriple) < MaxTriples
  /\ \E c \in TCallers :
       /\ \A i \in 1..Len(minput.addTriple) : minput.addTriple[i][1] \in c.subjects
       /\ \E s \in c.subjects, p \in c.predicates, o \in c.objects :
            /\ tdoc' = addTriple(tdoc, s, p, o)
            /\ minput' = [minput EXCEPT !.addTriple = Append(@, <<s, p, o>>)]
  /\ UNCHANGED <<tout, tread, tpc, mctx, cvars>>

SerializeDocument ==
  /\ tpc = "build"
  /\ tout' = [lines |-> serializeLines(tdoc), text |-> serializeDocument(tdoc)]
  /\ tpc' = "serialized"
  /\ UNCHANGED <<tdoc, tread, cvars, mvars>>

\* a caller reads the text back
ParseTurtle ==
  /\ tpc = "serialized"
  /\ tread = <<>>
  /\ tread' = <<parseTurtle(tout.text)>>
  /\ UNCHANGED <<tdoc, tout, tpc, cvars, mvars>>

TNext == AddPrefix \/ AddTriple \/ SerializeDocument \/ ParseTurtle

SpecTurtle == TInit /\ [][TNext]_vars

(***************************************************************************)
(* Properties of the serializer                                            *)
(***************************************************************************)
Serialized == tpc = "serialized"

\* a line without its terminator
Unterminated(line) ==
  IF endsWith(line, " .") THEN SubSeq(line, 1, Len(line) - 2)
  ELSE IF endsWith(line, ";") THEN SubSeq(line, 1, Len(line) - 1)
  ELSE line

RECURSIVE UnterminatedAll(_)
UnterminatedAll(lines) ==
  IF Len(lines) = 0 THEN <<>>
  ELSE <<Unterminated(lines[1])>> \o UnterminatedAll(Tail(lines))

\* the distinct predicates of a triple list, in first-occurrence order
RECURSIVE PredicateOrder(_)
PredicateOrder(triples) ==
  IF Len(triples) = 0 THEN <<>>
  ELSE LET init == PredicateOrder(SubSeq(triples, 1, Len(triples) - 1))
           p == triples[Len(triples)].predicate
       IN IF \E i \in 1..Len(init) : init[i] = p THEN init ELSE Append(init, p)

\* the block the grouping rule prescribes for one subject with several triples
RECURSIVE GroupedLines(_, _, _)
GroupedLines(triples, preds, i) ==
  IF i > Len(preds) THEN <<"">>
  ELSE LET objs == mapValues(SelectSeq(triples, LAMBDA t : t.predicate = preds[i]))
           lead == IF i = 1 THEN serializeIRI(triples[1].subject) \o " " ELSE "  "
           term == IF i = Len(preds) THEN " ." ELSE ";"
       IN <<lead \o serializePredicate(preds[i]) \o " " \o join(objs, ",\n    ") \o term>>
          \o GroupedLines(triples, preds, i + 1)

RECURSIVE GroupedBlocks(_, _)
GroupedBlocks(triples, order) ==
  IF Len(order) = 0 THEN <<>>
  ELSE LET ts == triplesOf(triples, order[1])
       IN (IF Len(ts) = 1 THEN subjectBlock(ts)
           ELSE GroupedLines(ts, PredicateOrder(ts), 1))
          \o GroupedBlocks(triples, Tail(order))

GroupedDocument(doc) ==
  prefixLines(doc.prefixes)
    \o (IF Len(doc.prefixes) > 0 THEN <<"">> ELSE <<>>)
    \o GroupedBlocks(doc.triples, subjectOrder(doc.triples))

\* C5: serializeDocument renders every triple exactly once: subjects in
\* first-occurrence order, one line per distinct predicate in first-occurrence
\* order, each listing all objects of that subject and predicate comma-joined
\* in insertion order (line terminators aside, which are C6's matter).
C5_EveryTripleOnceGrouped ==
  Serialized => UnterminatedAll(tout.lines) = UnterminatedAll(GroupedDocument(tdoc))

\* C6: the block of a subject with two or more triples ends its final
\* predicate line with "." followed by a blank line, and every earlier
\* predicate line of the block ends with ";".
C6_BlockTerminators ==
  Serialized =>
    \A i \in 2..Len(tout.lines) :
      /\ tout.lines[i] = "" => endsWith(tout.lines[i - 1], " .")
      /\ startsWith(tout.lines[i], "  ") => endsWith(tout.lines[i - 1], ";")

\* the first triple of every subject, which no grouping rule moves or merges
FirstTriples(doc) ==
  {triplesOf(doc.triples, s)[1] : s \in {doc.triples[i].subject : i \in 1..Len(doc.triples)}}

\* the IRI begins with the namespace of a declared prefix, or with its name
KnownPrefixOf(v, prefixes) ==
  {i \in 1..Len(prefixes) :
     \/ startsWith(v, prefixes[i].uri) /\ Len(v) > Len(prefixes[i].uri)
     \/ startsWith(v, prefixes[i].prefix \o ":") /\ Len(v) > Len(prefixes[i].prefix) + 1}

\* the rendering C7 states: compact against the declared prefixes
ClaimedIRI(v, prefixes) ==
  LET known == KnownPrefixOf(v, prefixes)
  IN IF /\ known # {}
        /\ ~startsWith(v, "http://") /\ ~startsWith(v, "https://") /\ ~startsWith(v, "_:")
     THEN LET p == prefixes[SetMin(known)]
          IN IF startsWith(v, p.uri)
             THEN p.prefix \o ":" \o SubSeq(v, Len(p.uri) + 1, Len(v))
             ELSE v
     ELSE "<" \o v \o ">"

\* the shape name:local, stated on the two sides of the first colon
HasPrefixShape(v) ==
  LET parts == split(v, ":")
      rest == SubSeq(v, Len(parts[1]) + 2, Len(v))
  IN /\ Len(parts) >= 2
     /\ parts[1] # ""
     /\ CharsOf(parts[1]) \subseteq WordChars
     /\ rest # ""
     /\ CharsOf(rest) \cap {"/", "<", ">"} = {}

\* the rendering by textual shape alone; only subjects and objects bracket "_:"
ShapeIRI(v, blankBracketed) ==
  IF HasPrefixShape(v) /\ ~(blankBracketed /\ startsWith(v, "_:"))
  THEN v
  ELSE "<" \o v \o ">"

\* the predicate and object of triple t as written, given the rendering of
\* IRIs in subject/object position (R) and in predicate/datatype position (Q)
RenderedRest(t, R(_), Q(_)) ==
  LET predicate == IF t.predicate \in {RDF_TYPE, "rdf:type"} THEN "a" ELSE Q(t.predicate)
      quoted == "\"" \o replaceAll(t.object.value, "\"", "\\\"") \o "\""
      object == IF t.object.kind = "iri" THEN R(t.object.value)
                ELSE IF t.object.language # "" THEN quoted \o "@" \o t.object.language
                ELSE IF t.object.datatype = "" THEN quoted
                ELSE IF t.object.datatype = XSD_INTEGER THEN quoted \o "^^xsd:int"
                ELSE quoted \o "^^" \o Q(t.object.datatype)
  IN predicate \o " " \o object

\* triple t is written in lines: subject, predicate and object at the start
\* of one line or, in the long-subject layout, the subject alone on a line
\* and the predicate and object indented at the start of the next
Rendered(lines, t, R(_), Q(_)) ==
  \E i \in 1..Len(lines) :
    \/ startsWith(lines[i], R(t.subject) \o " " \o RenderedRest(t, R, Q))
    \/ /\ i < Len(lines)
       /\ lines[i] = R(t.subject)
       /\ startsWith(lines[i + 1], "    " \o RenderedRest(t, R, Q))

\* C7 as stated: an IRI is compacted to prefix:localName when it matches the
\* namespace of a prefix known to the graph model (and does not begin with
\* http://, https:// or "_:"), and every other IRI is wrapped in angle brackets.
C7_CompactsKnownPrefixes ==
  Serialized =>
    \A t \in FirstTriples(tdoc) :
      Rendered(tout.lines, t, LAMBDA v : ClaimedIRI(v, tdoc.prefixes),
                              LAMBDA v : ClaimedIRI(v, tdoc.prefixes))

\* C7 amended: an IRI is written as it stands exactly when its text has the
\* shape name:local (a non-empty run of letters, digits and "_", a colon, a
\* non-empty rest without "/", "<", ">") and, in subject or object position,
\* does not begin with "_:"; every other IRI is wrapped in angle brackets. The
\* prefixes declared in the graph model play no part.
C7_RendersByShape ==
  Serialized =>
    \A t \in FirstTriples(tdoc) :
      Rendered(tout.lines, t, LAMBDA v : ShapeIRI(v, TRUE), LAMBDA v : ShapeIRI(v, FALSE))

\* a serialized model that declares a prefix, holds a full IRI inside that
\* prefix's namespace, a blank-node subject and an object of prefixed shape
C7_Witness ==
  /\ Serialized
  /\ Len(tdoc.prefixes) > 0
  /\ \E i, j, k \in 1..Len(tdoc.triples) :
       /\ startsWith(tdoc.triples[i].subject, tdoc.prefixes[1].uri)
       /\ startsWith(tdoc.triples[j].subject, "_:")
       /\ tdoc.triples[k].object.kind = "iri" /\ HasPrefixShape(tdoc.triples[k].object.value)
       /\ tdoc.triples[k] \in FirstTriples(tdoc)


(***************************************************************************)
(* conlluToTurtle as a state machine.  The call runs its blocks in order:  *)
(* the document node and its layer, the citation block, the UD layer, the  *)
(* morphology layer, the serialization of the graph.                       *)
(***************************************************************************)
\* a sentence of two tokens, the first with features and a lemma link
MSentence1 ==
  "1\tIl\til\tDET\t_\tGender=Masc|Number=Sing\t2\tdet\t_\t"
    \o "LiITALinkedURIs=[\"http://liita.it/data/id/lemma/7\"]\n"
    \o "2\tcane\tcane\tNOUN\t_\t_\t0\troot\t_\t_"

MSentence2 == "1\tabbaia\tabbaiare\tVERB\t_\t_\t0\troot\t_\t_"

\* a sentence that opens with a multiword token line
MSentence3 ==
  "1-2\tdel\t_\t_\t_\t_\t_\t_\t_\t_\n"
    \o "1\tdi\tdi\tADP\t_\t_\t2\tcase\t_\t_\n"
    \o "2\til\til\tDET\t_\t_\t0\troot\t_\t_"

\* a sentence whose tokens link two lemmas, one without an id then one with, none, and one
MSentence4 ==
  "1\tuno\t_\t_\t_\t_\t0\troot\t_\tLiITALinkedURIs=[\"http://liita.it/data/id/hypolemma/12\",\"http://liita.it/data/id/lemma/3\"]\n"
    \o "2\tdue\t_\t_\t_\t_\t1\tdep\t_\tLiITALinkedURIs=[\"http://liita.it/data/lemma/x\",\"http://liita.it/data/id/lemma/5\"]\n"
    \o "3\ttre\t_\t_\t_\t_\t1\tdep\t_\tSpaceAfter=No|LiITALinkedURIs=[]\n"
    \o "4\tsei\t_\t_\t_\t_\t1\tdep\t_\tLiITALinkedURIs=[\"http://liita.it/data/id/lemma/7\"]"

\* the comment lines in front of the first sentence
MHeaders1 ==
  {"", "# newdoc id = doc1\n# newpar id = para1\n", "# newdoc\n", "# newpar\n",
   "# newdoc = d1\n", "# newpar = p1\n", "# text = a newdoc\n", "# newdoc id: d7\n"}

\* the comment lines in front of the second sentence
MHeaders2 == {"", "# newpar\n", "# newdoc = d2\n"}

MTexts ==
  {h1 \o MSentence1 \o "\n\n" \o h2 \o MSentence2 : h1 \in MHeaders1, h2 \in MHeaders2}
    \cup {"# newdoc id = doc1", MSentence2 \o "\n\n# newpar",
          "# text = x\n\n" \o MSentence1 \o "\n\n# newpar\n\n" \o MSentence2,
          MSentence3, MSentence4,
          \* an explicit id that repeats, and one that equals a generated segment
          "# newdoc = d1\n" \o MSentence1 \o "\n\n# newdoc = d1\n" \o MSentence2,
          "# newpar = p1\n" \o MSentence1 \o "\n\n# newpar = p1\n" \o MSentence2,
          "# newdoc = Document_2\n" \o MSentence1 \o "\n\n# newdoc\n" \o MSentence2}

\* the sentences of document with the comments of sentence k replaced
withComments(document, k, comments) ==
  [sentences |-> [document.sentences EXCEPT ![k].comments = comments]]

\* documents as a caller builds them, with the comment text in value
MBuilt ==
  LET document == parse(MSentence1 \o "\n\n" \o MSentence2)
  IN {withComments(document, 1, <<[type |-> "freeform", value |-> "# newdoc id = doc1"],
                                  [type |-> "freeform", value |-> "# newpar id = para1"]>>),
      withComments(document, 2, <<[type |-> "freeform", value |-> "# newpar id = para2"]>>),
      withComments(document, 1, <<[type |-> "newdoc", id |-> "doc1"]>>),
      \* a token whose feats is the empty object
      [sentences |-> [document.sentences EXCEPT ![2].tokens[1].feats = Some(<<>>)]]}

\* the marker lines in front of one sentence of a placement
MPlacedHeaders == {"", "# newdoc\n", "# newpar\n", "# newdoc\n# newpar\n"}

\* a sentence of one token
MOneToken(form) == "1\t" \o form \o "\t_\t_\t_\t_\t0\troot\t_\t_"

\* three sentences under every placement of the markers
MPlaced ==
  {h1 \o MOneToken("a") \o "\n\n" \o h2 \o MOneToken("b") \o "\n\n" \o h3 \o MOneToken("c") :
     h1 \in MPlacedHeaders, h2 \in MPlacedHeaders, h3 \in MPlacedHeaders}

MDocuments == {parse(t) : t \in MTexts \cup MPlaced} \cup MBuilt

MMetadata ==
  [docId |-> "d", docTitle |-> "My Doc", contributor |-> "C",
   corpusRef |-> "http://example.org/corpus", docAuthor |-> "http://example.org/author",
   seeAlso |-> "http://example.org/see", description |-> "D"]

MOptions ==
  {[includeCitationLayer |-> c, includeMorphologicalLayer |-> m,
    citationLayerLabels |-> [documentLabel |-> "Document", paragraphLabel |-> "Paragraph",
                             sentenceLabel |-> "Sentence"]] : c \in BOOLEAN, m \in BOOLEAN}

\* the constants of a call with the given arguments
envOf(input) ==
  LET docURI == generateDocumentURI(input.metadata.corpusRef, input.metadata.docTitle)
  IN [corpusRefURI |-> input.metadata.corpusRef,
      docTitle |-> input.metadata.docTitle,
      docURI |-> docURI,
      docLayerURI |-> docURI \o "/DocumentLayer",
      documentLabel |-> input.options.citationLayerLabels.documentLabel,
      paragraphLabel |-> input.options.citationLayerLabels.paragraphLabel,
      sentenceLabel |-> input.options.citationLayerLabels.sentenceLabel,
      total |-> Len(validSentences(input.document))]

\* the constants of the running call
env == envOf(minput)

\* the stage after a block that leaves doc: "threw" when the block has thrown
stageAfter(doc, stage) == IF aborted(doc) THEN "threw" ELSE stage

\* lines 2738-2771: the morphology layer, when it is asked for
morphologyBlock(doc, e, sentences, options, map) ==
  IF options.includeMorphologicalLayer
  THEN morphologyLayer(doc, e, sentences, filledMap(e, map))
  ELSE doc

\* the whole function, block after block, up to its last line: the graph
\* model whose serialization it returns, or the one it held when it threw
conlluToTurtle(input) ==
  LET e == envOf(input)
      sentences == validSentences(input.document)
      map == IF input.options.includeCitationLayer THEN <<>> ELSE flatMap(envOf(input))
      start == addDocumentLayer(
                 addDocumentMetadata(addAllPrefixes(createDocument), envOf(input).docURI,
                                     envOf(input).corpusRefURI, input.metadata),
                 envOf(input).docURI, envOf(input).docTitle)
  IN morphologyBlock(
       udLayer(IF input.options.includeCitationLayer
               THEN citationLayer(start, e, sentences)
               ELSE tokensOnly(start, e, sentences, 1),
               e, sentences, map, input.options.includeMorphologicalLayer),
       e, sentences, input.options, map)

MInit ==
  /\ minput \in {[document |-> d, metadata |-> MMetadata, options |-> o] :
                   d \in MDocuments, o \in MOptions}
  /\ mctx = [validSentences |-> <<>>, citationSentURIMap |-> <<>>]
  /\ tdoc = createDocument
  /\ tout = [lines |-> <<>>, text |-> ""]
  /\ tread = <<>>
  /\ tpc = "start"
  /\ CIdle

\* lines 2025-2055: the valid sentences, the prefixes, the document node and its layer
StartConversion ==
  /\ tpc = "start"
  /\ mctx' = [validSentences |-> validSentences(minput.document),
              citationSentURIMap |-> <<>>]
  /\ tdoc' = addDocumentLayer(
               addDocumentMetadata(addAllPrefixes(createDocument), env.docURI,
                                   env.corpusRefURI, minput.metadata),
               env.docURI, env.docTitle)
  /\ tpc' = "citation"
  /\ UNCHANGED <<tout, tread, minput, cvars>>

\* lines 2058-2662: the citation block, or the tokens alone; only the second
\* writes the citationSentURIMap of the function
CitationLayer ==
  /\ tpc = "citation"
  /\ IF minput.options.includeCitationLayer
     THEN /\ tdoc' = citationLayer(tdoc, env, mctx.validSentences)
          /\ mctx' = mctx
     ELSE /\ tdoc' = tokensOnly(tdoc, env, mctx.validSentences, 1)
          /\ mctx' = [mctx EXCEPT !.citationSentURIMap = flatMap(env)]
  /\ tpc' = stageAfter(tdoc', "ud")
  /\ UNCHANGED <<tout, tread, minput, cvars>>

\* lines 2664-2736
UDLayer ==
  /\ tpc = "ud"
  /\ tdoc' = udLayer(tdoc, env, mctx.validSentences, mctx.citationSentURIMap,
                     minput.options.includeMorphologicalLayer)
  /\ mctx' = [mctx EXCEPT !.citationSentURIMap = filledMap(env, @)]
  /\ tpc' = stageAfter(tdoc', "morphology")
  /\ UNCHANGED <<tout, tread, minput, cvars>>

\* lines 2738-2771
MorphologyLayer ==
  /\ tpc = "morphology"
  /\ tdoc' = IF minput.options.includeMorphologicalLayer
             THEN morphologyLayer(tdoc, env, mctx.validSentences, mctx.citationSentURIMap)
             ELSE tdoc
  /\ tpc' = stageAfter(tdoc', "serialize")
  /\ UNCHANGED <<tout, tread, minput, mctx, cvars>>

\* line 2773
ReturnTurtle ==
  /\ tpc = "serialize"
  /\ tout' = [lines |-> serializeLines(tdoc), text |-> serializeDocument(tdoc)]
  /\ tpc' = "done"
  /\ UNCHANGED <<tdoc, tread, minput, mctx, cvars>>

MNext == StartConversion \/ CitationLayer \/ UDLayer \/ MorphologyLayer \/ ReturnTurtle

SpecConv == MInit /\ [][MNext]_vars

(***************************************************************************)
(* Properties of the conversion                                            *)
(***************************************************************************)
Converted == tpc = "done"

Triples == {tdoc.triples[i] : i \in 1..Len(tdoc.triples)}

\* the subjects declared of the given type
TypedAs(type) ==
  {t.subject : t \in {u \in Triples : u.predicate = RDF_TYPE /\ u.object.value = type}}

\* the objects of predicate on subject
ObjectsOf(subject, predicate) ==
  {t.object.value : t \in {u \in Triples : u.subject = subject /\ u.predicate = predicate}}

Terminals == TypedAs("powla:Terminal")

CitationUnits == TypedAs("lila_corpus:citationUnit")

\* the predicates by which the UD and morphology layers point at a token
TokenLinks ==
  {"powla:firstTerminal", "powla:hasTerminal", "powla:lastTerminal", "lila_corpus:hasDep",
   "oa:hasTarget"}

\* C1: every token IRI the UD Root (firstTerminal, hasTerminal, lastTerminal),
\* the dependency node (hasDep, and hasHead unless the head is the Root) and the
\* morphology annotation (hasTarget) use is the IRI of an emitted Terminal node,
\* in every hierarchy shape, with the citation layer enabled or disabled.
C1_TokenIRIsAreTerminals ==
  Converted =>
    \A t \in Triples :
      /\ t.predicate \in TokenLinks => t.object.value \in Terminals
      /\ t.predicate = "lila_corpus:hasHead" =>
           t.object.value \in Terminals \cup TypedAs("powla:Root")

\* the predicates that link a citation unit to its children and siblings
UnitLinks ==
  {"lila_corpus:first", "lila_corpus:last", "powla:hasChild", "powla:next", "powla:previous"}

\* C2: with the citation layer enabled, every object of first, last, hasChild,
\* next or previous on a citation unit is itself the subject of a citation unit
\* or of a Terminal node of the same graph.
C2_UnitLinksResolve ==
  Converted /\ minput.options.includeCitationLayer =>
    \A t \in Triples :
      t.subject \in CitationUnits /\ t.predicate \in UnitLinks =>
        t.object.value \in CitationUnits \cup Terminals

\* the citation units of the given level whose reference value is value
UnitsWith(refType, value) ==
  {u \in CitationUnits : /\ refType \in ObjectsOf(u, "lila_corpus:hasRefType")
                         /\ value \in ObjectsOf(u, "lila_corpus:hasRefValue")}

UnitsOfLevel(refType) ==
  {u \in CitationUnits : refType \in ObjectsOf(u, "lila_corpus:hasRefType")}

\* the two-sentence source text of the example
C3_Text ==
  "# newdoc id = doc1\n# newpar id = para1\n" \o MSentence1 \o "\n\n" \o MSentence2

\* C3: the two-sentence source whose first sentence carries "# newdoc id = doc1"
\* and "# newpar id = para1", parsed and converted, has a Document unit with
\* value doc1, a Paragraph unit with value para1 below it, and both Sentence
\* units below that paragraph.
C3_ParsedMarkersKeepIds ==
  Converted /\ minput.options.includeCitationLayer /\ minput.document = parse(C3_Text) =>
    \E d \in UnitsWith("Document", "doc1"), p \in UnitsWith("Paragraph", "para1") :
      /\ p \in ObjectsOf(d, "powla:hasChild")
      /\ Cardinality(UnitsOfLevel("Sentence")) = 2
      /\ UnitsOfLevel("Sentence") \subseteq ObjectsOf(p, "powla:hasChild")

\* a comment is a marker of the given word in one of the recognised shapes: a
\* comment typed with the word, a metadata comment whose key is the word, alone
\* or followed by more (as in "newdoc id"), or a freeform comment whose text
\* begins with the word
IsMarker(comment, word) ==
  LET text == IF "value" \in DOMAIN comment THEN trim(comment.value)
              ELSE IF "text" \in DOMAIN comment THEN trim(comment.text)
              ELSE ""
      bare == IF startsWith(text, "#") THEN trim(SubSeq(text, 2, Len(text))) ELSE text
  IN \/ comment.type = word
     \/ /\ comment.type = "metadata"
        /\ "key" \in DOMAIN comment
        /\ comment.key = word \/ startsWith(comment.key, word \o " ")
     \/ /\ comment.type = "freeform"
        /\ toLowerCase(SubSeq(bare, 1, Len(word))) = word

\* some token-bearing sentence carries a marker of the given word
HasMarker(word) ==
  \E i \in 1..Len(mctx.validSentences) :
    \E j \in 1..Len(mctx.validSentences[i].comments) :
      IsMarker(mctx.validSentences[i].comments[j], word)

\* the children of the citation structure
TopLevel == ObjectsOf(env.docURI \o "/CiteStructure", "lila_corpus:isLayer")

\* C4: with the citation layer enabled the children of the citation structure
\* are Document units exactly when a token-bearing sentence carries a newdoc
\* marker, else Paragraph units exactly when one carries a newpar marker, else
\* Sentence units; no Document unit exists without a newdoc marker and no
\* Paragraph unit without a newpar marker.
C4_OneShape ==
  Converted /\ minput.options.includeCitationLayer =>
    LET shape == IF HasMarker("newdoc") THEN "Document"
                 ELSE IF HasMarker("newpar") THEN "Paragraph"
                 ELSE "Sentence"
    IN /\ TopLevel \subseteq UnitsOfLevel(shape)
       /\ HasMarker("newdoc") \/ UnitsOfLevel("Document") = {}
       /\ HasMarker("newpar") \/ UnitsOfLevel("Paragraph") = {}

\* the document without its sentences of zero tokens
WithoutEmptySentences(document) ==
  [sentences |-> SelectSeq(document.sentences, LAMBDA sentence : sentence.tokens # <<>>)]

\* the hasRefValue of the UD sentences
RootRefValues ==
  UNION {ObjectsOf(root, "lila_corpus:hasRefValue") : root \in TypedAs("powla:Root")}

\* C17: sentences with zero tokens are excluded from all graph layers: the
\* call ends with the graph model, hence with the text it serializes to or the
\* error, of the call on the document without its zero-token sentences, and
\* the UD sentences are numbered 1..k over the token-bearing sentences.
C17_ZeroTokenSentencesExcluded ==
  /\ tpc \in {"done", "threw"} =>
       tdoc = conlluToTurtle([minput EXCEPT !.document = WithoutEmptySentences(@)])
  /\ tpc = "done" =>
       RootRefValues =
         {"Sentence_" \o ToString(n) :
            n \in 1..Len(WithoutEmptySentences(minput.document).sentences)}

\* a converted document of four sentences, the first and the third without
\* tokens: two UD sentences, numbered 1 and 2
C17_Witness ==
  /\ tpc = "done"
  /\ Len(minput.document.sentences) = 4
  /\ Len(minput.document.sentences[1].tokens) = 0
  /\ Len(minput.document.sentences[3].tokens) = 0
  /\ RootRefValues = {"Sentence_1", "Sentence_2"}

\* the positions in the triples of the hasHead of a node
HeadTriples(node) ==
  {k \in 1..Len(tdoc.triples) :
     tdoc.triples[k].subject = node /\ tdoc.triples[k].predicate = "lila_corpus:hasHead"}

\* the UD sentences that hold the token
OwningRoots(tokenURI) ==
  {root \in TypedAs("powla:Root") : tokenURI \in ObjectsOf(root, "powla:hasTerminal")}

\* the IRI a token of the same sentence has, given the IRI of the token at
\* position i: the last segment /t<i> becomes /t<j>
SiblingURI(tokenURI, i, j) ==
  SubSeq(tokenURI, 1, Len(tokenURI) - Len(ToString(i))) \o ToString(j)

\* the dependency node of the token at position i of valid sentence n has one
\* hasDep, one hasHead, and the head the claim names
HeadAsClaimed(n, i) ==
  LET tokens == mctx.validSentences[n].tokens
      node == generateUDDepURI(env.corpusRefURI, env.docTitle, n, i)
      heads == {j \in 1..Len(tokens) : Some(tokens[j].id) = tokens[i].head}
  IN /\ Cardinality(ObjectsOf(node, "lila_corpus:hasDep")) = 1
     /\ Cardinality(HeadTriples(node)) = 1
     /\ \A dependent \in ObjectsOf(node, "lila_corpus:hasDep") :
          \A head \in ObjectsOf(node, "lila_corpus:hasHead") :
            IF tokens[i].deprel = Some("root") \/ heads = {}
            THEN head \in OwningRoots(dependent)
            ELSE \E j \in heads : head = SiblingURI(dependent, i, j)

\* C18: with the morphological layer enabled every token yields one
\* dependency-relation node with exactly one hasHead: the Root of its UD
\* sentence if its deprel is root or its head is unresolvable, otherwise the
\* Terminal of the token of the same sentence whose ID is its HEAD, also in
\* sentences with multiword-token or empty-node lines.
C18_HeadIsHeadToken ==
  Converted /\ minput.options.includeMorphologicalLayer =>
    \A n \in 1..Len(mctx.validSentences) :
      \A i \in 1..Len(mctx.validSentences[n].tokens) : HeadAsClaimed(n, i)

\* the text has been read back
Reread == tread # <<>>

PrefixSet(doc) == {doc.prefixes[i] : i \in 1..Len(doc.prefixes)}

\* C19: for every graph model, the minimal reader applied to the text of
\* serializeDocument recovers the same set of prefix declarations and the
\* same number of triples.
C19_RereadRecovers ==
  Reread =>
    /\ PrefixSet(tread[1]) = PrefixSet(tdoc)
    /\ Len(tread[1].triples) = Len(tdoc.triples)

\* the input tokens of the sentences that are converted
InputTokens ==
  UNION {{s.tokens[i] : i \in 1..Len(s.tokens)} :
           s \in {validSentences(minput.document)[k] :
                    k \in 1..Len(validSentences(minput.document))}}

\* the hasLemma object the first linked URI of token calls for, if any
LemmaCalledFor(token) ==
  LET uris == IF token.misc = None THEN <<>> ELSE linkedURIsIn(token.misc[1], <<>>)
  IN IF Len(uris) = 0 \/ extractLemmaId(uris[1]) = "" THEN {}
     ELSE {(IF includes(uris[1], "/hypolemma/") THEN "liitaIpoLemma" ELSE "liitaLemma")
             \o ":" \o extractLemmaId(uris[1])}

\* the positions of the hasLemma triples of node
LemmaTriples(node) ==
  {i \in 1..Len(tdoc.triples) :
     tdoc.triples[i].subject = node
       /\ tdoc.triples[i].predicate = "lilaOntology:hasLemma"}

\* C20: every Terminal of a converted document carries at most one hasLemma
\* triple, and its hasLemma objects are exactly what the first linked URI of the
\* token of that form calls for: liitaIpoLemma or liitaLemma by /hypolemma/,
\* then the numeric id, and nothing without a linked URI or without an id
C20_OneLemmaFromFirstURI ==
  Converted =>
    \A node \in Terminals :
      /\ Cardinality(LemmaTriples(node)) <= 1
      /\ \A token \in {t \in InputTokens : t.form \in ObjectsOf(node, "powla:hasStringValue")} :
           {tdoc.triples[i].object.value : i \in LemmaTriples(node)} = LemmaCalledFor(token)

C20_Witness ==
  /\ Converted
  /\ Cardinality(Terminals) = 4
  /\ UNION {ObjectsOf(node, "lilaOntology:hasLemma") : node \in Terminals}
       = {"liitaIpoLemma:12", "liitaLemma:7"}
  /\ \E node \in Terminals : LemmaTriples(node) = {}

\* the positions of the triples of node with predicate
PositionsOf(node, predicate) ==
  {i \in 1..Len(tdoc.triples) :
     tdoc.triples[i].subject = node /\ tdoc.triples[i].predicate = predicate}

MorphologyNodes == TypedAs("oa:Annotation")

\* the hasBody IRIs the features of token call for, in order
BodiesCalledFor(token) ==
  IF token.feats = None \/ Len(token.feats[1]) = 0
  THEN <<"https://universaldependencies.org/it/feat/">>
  ELSE [i \in 1..Len(token.feats[1]) |->
          "https://universaldependencies.org/it/feat/" \o token.feats[1][i].key \o "#"
            \o token.feats[1][i].value]

\* the morphology annotation node of token i of sentence k is as C21 says
AnnotatedOnce(sentences, k, i) ==
  LET node == generateMorphologyAnnotationURI(env.corpusRefURI, env.docTitle, k, i)
      bodies == BodiesCalledFor(sentences[k].tokens[i])
  IN /\ Cardinality(PositionsOf(node, RDF_TYPE)) = 1
     /\ node \in MorphologyNodes
     /\ Cardinality(PositionsOf(node, "oa:hasBody")) = Len(bodies)
     /\ ObjectsOf(node, "oa:hasBody") = {bodies[j] : j \in 1..Len(bodies)}
     /\ Cardinality(PositionsOf(node, "oa:hasTarget")) = 1

\* C21: with the morphological layer enabled, every token of a converted
\* document has exactly one morphology annotation node, there is no other
\* annotation node, and the node carries one hasBody IRI per feature of the
\* token, or the one placeholder IRI when feats is absent or empty, and exactly
\* one hasTarget
C21_OneAnnotationPerToken ==
  (Converted /\ minput.options.includeMorphologicalLayer) =>
    /\ Cardinality(MorphologyNodes) = TokenTotal(validSentences(minput.document))
    /\ \A k \in 1..Len(validSentences(minput.document)) :
         \A i \in 1..Len(validSentences(minput.document)[k].tokens) :
           AnnotatedOnce(validSentences(minput.document), k, i)

C21_Witness ==
  /\ Converted
  /\ minput.options.includeMorphologicalLayer
  /\ Cardinality(MorphologyNodes) = 3
  /\ \E node \in MorphologyNodes : Cardinality(ObjectsOf(node, "oa:hasBody")) = 2
  /\ \E node \in MorphologyNodes :
       ObjectsOf(node, "oa:hasBody") = {"https://universaldependencies.org/it/feat/"}

\* the positions of the triples that declare a Terminal
TerminalDeclarations ==
  {i \in 1..Len(tdoc.triples) :
     tdoc.triples[i].predicate = RDF_TYPE
       /\ tdoc.triples[i].object.value = "powla:Terminal"}

\* C22: with the citation layer disabled, a converted document has exactly one
\* Terminal node for every token of every token-bearing sentence, carrying the
\* form of that token, and has no citation structure and no citation unit
C22_TokensWithoutCitationLayer ==
  (Converted /\ ~minput.options.includeCitationLayer) =>
    /\ Cardinality(TerminalDeclarations) = TokenTotal(validSentences(minput.document))
    /\ Cardinality(Terminals) = TokenTotal(validSentences(minput.document))
    /\ \A k \in 1..Len(validSentences(minput.document)) :
         \A i \in 1..Len(validSentences(minput.document)[k].tokens) :
           \E node \in Terminals :
             /\ node = generateTokenURI(flatSentenceURIs(env)[k], i)
             /\ ObjectsOf(node, "powla:hasStringValue")
                  = {validSentences(minput.document)[k].tokens[i].form}
    /\ TypedAs("lila_corpus:CitationStructure") = {}
    /\ CitationUnits = {}
    /\ \A t \in Triples :
         t.predicate # "powla:hasChild" /\ t.subject # env.docURI \o "/CiteStructure"

C22_Witness ==
  /\ Converted
  /\ ~minput.options.includeCitationLayer
  /\ Cardinality(Terminals) = 4
  /\ Len(validSentences(minput.document)) = 1

\* the stage of the emission order a subject belongs to: 1 document metadata,
\* 2 DocumentLayer, 3 citation hierarchy and tokens, 4 UD layer and Root nodes,
\* 5 dependency-relation nodes, 6 morphology layer and annotations
StageOf(subject) ==
  IF subject \in MorphologyNodes \/ subject = env.docURI \o "/UDMorphologyAnnotationLayer"
  THEN 6
  ELSE IF ObjectsOf(subject, "lila_corpus:hasDep") # {} THEN 5
  ELSE IF subject \in TypedAs("powla:Root") \/ subject = env.docURI \o "/UDAnnotationLayer"
  THEN 4
  ELSE IF subject \in Terminals \cup CitationUnits \/ subject = env.docURI \o "/CiteStructure"
  THEN 3
  ELSE IF subject = env.docLayerURI THEN 2
  ELSE 1

\* C23: in the triple sequence of a converted document no triple of a stage
\* comes after a triple of a later stage, that is, the stages of consecutive
\* triples never decrease
C23_StageOrder ==
  Converted =>
    \A i \in 1..(Len(tdoc.triples) - 1) :
      StageOf(tdoc.triples[i].subject) <= StageOf(tdoc.triples[i + 1].subject)

\* a graph model is being built, or has been, by addPrefix and addTriple calls
BuiltByCalls == tpc \in {"build", "serialized"}

LongLayout(s) ==
  \E i \in 1..(Len(tout.lines) - 1) :
    /\ tout.lines[i] \in {s, "<" \o s \o ">"}
    /\ startsWith(tout.lines[i + 1], "    a ")

\* the length of the text the subject s is written as
TextLength(s) ==
  IF \E i \in 1..Len(tout.lines) : startsWith(tout.lines[i], "<" \o s \o ">")
  THEN Len(s) + 2 ELSE Len(s)

\* the conditions C28 gives for the long-subject layout of s
LongLayoutCalledFor(s) ==
  /\ Len(triplesOf(tdoc.triples, s)) >= 2
  /\ triplesOf(tdoc.triples, s)[1].predicate \in {"rdf:type", RDF_TYPE}
  /\ TextLength(s) > 60

\* C28: in a serialized graph model a subject has the long-subject layout if
\* and only if it has two or more triples, its first predicate is rdf:type and
\* its text is more than 60 characters long
C28_LongLayoutIff ==
  Serialized =>
    \A s \in {tdoc.triples[i].subject : i \in 1..Len(tdoc.triples)} :
      LongLayout(s) <=> LongLayoutCalledFor(s)

\* the citation block has run on the valid sentences
Grouped == minput.options.includeCitationLayer /\ tpc \in {"ud", "morphology", "serialize", "done"}

\* the markers the token-bearing sentences carry
MarkersOf(sentences) ==
  [i \in 1..Len(sentences) |->
     [newdoc |-> \E k \in 1..Len(sentences[i].comments) :
                   IsMarker(sentences[i].comments[k], "newdoc"),
      newpar |-> \E k \in 1..Len(sentences[i].comments) :
                   IsMarker(sentences[i].comments[k], "newpar")]]

\* the sentence that opens the document group sentence i belongs to
DocumentStart(marks, i) ==
  SetMax({1} \cup {j \in 1..i : marks[j].newdoc})

\* the index C25 gives the document group of sentence i, 0 without document groups
DocumentIndexCalledFor(marks, i) ==
  IF \A j \in 1..Len(marks) : ~marks[j].newdoc THEN 0
  ELSE Cardinality({j \in 1..i : marks[j].newdoc}) + (IF marks[1].newdoc THEN 0 ELSE 1)

\* the index C25 gives the paragraph group of sentence i, 0 without paragraph groups
ParagraphIndexCalledFor(marks, i) ==
  IF \A j \in 1..Len(marks) : ~marks[j].newpar THEN 0
  ELSE Cardinality({j \in DocumentStart(marks, i)..i : marks[j].newpar})
         + (IF marks[DocumentStart(marks, i)].newpar THEN 0 ELSE 1)

\* the paragraph groups of the paragraphs-only shape, as one document group 0
AsDocuments(groups) ==
  IF hasNewdoc(groups) THEN documentsOf(groups)
  ELSE IF hasNewpar(groups)
  THEN <<[docId |-> "", docIndex |-> 0, paragraphs |-> collectParagraphs(groups, <<>>, 0)]>>
  ELSE <<[docId |-> "", docIndex |-> 0,
          paragraphs |-> <<[paraId |-> "", paraIndex |-> -1, sentences |-> groups]>>]>>

\* where the pass has put the sentences: <<d, p, k>> for the k-th sentence of
\* the p-th paragraph group of the d-th document group, n sentences in all
Slots(documents, n) ==
  {s \in (1..Len(documents)) \X (1..n) \X (1..n) :
     /\ s[2] <= Len(documents[s[1]].paragraphs)
     /\ s[3] <= Len(documents[s[1]].paragraphs[s[2]].sentences)}

\* the number, from 1, of the sentence in a slot
SentenceAt(documents, s) == documents[s[1]].paragraphs[s[2]].sentences[s[3]].index + 1

\* the groups are as C25 says, marks being the markers of the n sentences
PartitionCalledFor(documents, slots, marks, n) ==
  /\ \A i \in 1..n : Cardinality({s \in slots : SentenceAt(documents, s) = i}) = 1
  /\ \A s \in slots :
       /\ documents[s[1]].docIndex = DocumentIndexCalledFor(marks, SentenceAt(documents, s))
       /\ documents[s[1]].docIndex \in {0, s[1]}
       /\ IF documents[s[1]].paragraphs[s[2]].paraIndex = -1
          THEN ParagraphIndexCalledFor(marks, SentenceAt(documents, s)) = 0
          ELSE /\ documents[s[1]].paragraphs[s[2]].paraIndex
                    = ParagraphIndexCalledFor(marks, SentenceAt(documents, s))
               /\ documents[s[1]].paragraphs[s[2]].paraIndex = s[2]
  /\ \A s \in slots : \A t \in slots :
       (s[1] < t[1] \/ (s[1] = t[1] /\ s[2] < t[2])
          \/ (s[1] = t[1] /\ s[2] = t[2] /\ s[3] < t[3]))
         => SentenceAt(documents, s) < SentenceAt(documents, t)

\* C25: the pass puts every token-bearing sentence into exactly one group, in
\* source order; a newdoc marker opens the next document group and restarts
\* the paragraph numbers, a newpar marker opens the next paragraph group of the
\* current document, or of the top level when there is no newdoc marker at
\* all, a sentence with neither joins the group that is open, or an implicit
\* group 1; document indices are 1..n and paragraph indices 1..m per document
C25_PartitionInSourceOrder ==
  Grouped =>
    PartitionCalledFor(AsDocuments(sentenceGroups(mctx.validSentences)),
                       Slots(AsDocuments(sentenceGroups(mctx.validSentences)),
                             Len(mctx.validSentences)),
                       MarkersOf(mctx.validSentences), Len(mctx.validSentences))

\* the sentences the pass has taken for carriers of the given marker
TakenForMarked(groups, word) == {i \in 1..Len(groups) : groups[i][word] # None}

\* C27: the pass takes a sentence for the carrier of a newdoc or newpar marker,
\* and sets hasNewdoc or hasNewpar, only if one of the comments of the sentence
\* is that marker in a recognised shape; the word inside the value of another
\* key, as in "# text = a newdoc", is no marker
C27_OnlyMarkersOpenGroups ==
  Grouped =>
    \A word \in {"newdoc", "newpar"} :
      \A i \in TakenForMarked(sentenceGroups(mctx.validSentences), word) :
        MarkersOf(mctx.validSentences)[i][word]

\* the predicate by which a parent of the citation hierarchy lists its
\* children: isLayer for the citation structure, hasChild for a citation unit
ChildPredicate(parent) ==
  IF parent = env.docURI \o "/CiteStructure" THEN "lila_corpus:isLayer" ELSE "powla:hasChild"

\* the parents of the citation hierarchy
CitationParents ==
  {t.subject : t \in {u \in Triples : u.predicate = "powla:hasChild"}}
    \cup TypedAs("lila_corpus:CitationStructure")

\* the children of parent in the order in which they are listed
ChildrenOf(parent) ==
  LET at == PositionsOf(parent, ChildPredicate(parent))
  IN [k \in 1..Cardinality(at) |->
        tdoc.triples[CHOOSE i \in at : Cardinality({j \in at : j <= i}) = k].object.value]

\* the children c of one parent are a doubly linked chain from first to last
LinkedChain(parent, c) ==
  /\ Len(c) > 0
  /\ \A i \in 1..Len(c) : \A j \in 1..Len(c) : c[i] = c[j] => i = j
  /\ ObjectsOf(parent, "lila_corpus:first") = {c[1]}
  /\ ObjectsOf(parent, "lila_corpus:last") = {c[Len(c)]}
  /\ \A i \in 1..Len(c) :
       /\ ObjectsOf(c[i], "powla:next") = IF i < Len(c) THEN {c[i + 1]} ELSE {}
       /\ ObjectsOf(c[i], "powla:previous") = IF i > 1 THEN {c[i - 1]} ELSE {}

\* C26: in a converted document the children of every parent of the citation
\* hierarchy are a doubly linked chain in the order in which the parent lists
\* them: the parent's first is the first child and its last the last, every
\* child has the next child as its next and the one before as its previous,
\* the first has no previous and the last no next
C26_ChildrenAreChains ==
  (Converted /\ minput.options.includeCitationLayer) =>
    \A parent \in CitationParents : LinkedChain(parent, ChildrenOf(parent))

RECURSIVE ParagraphTotal(_)
\* the number of paragraph groups of the document groups
ParagraphTotal(documents) ==
  IF Len(documents) = 0 THEN 0
  ELSE Len(SelectSeq(documents[1].paragraphs, LAMBDA para : para.paraIndex # -1))
         + ParagraphTotal(Tail(documents))

\* the units of each level are as many as the groups of that level
OneUnitPerGroup(groups, sentences) ==
  /\ hasNewdoc(groups) => Cardinality(UnitsOfLevel("Document")) = Len(AsDocuments(groups))
  /\ hasNewpar(groups) =>
       Cardinality(UnitsOfLevel("Paragraph")) = ParagraphTotal(AsDocuments(groups))
  /\ Cardinality(UnitsOfLevel("Sentence")) = Len(sentences)

\* C29: in a converted document distinct document groups have distinct
\* citation URIs, distinct paragraph groups have distinct citation URIs and
\* distinct token-bearing sentences have distinct citation URIs, so that the
\* citation units of a level are as many as its groups, also when an explicit
\* id repeats or equals the generated segment of another group
C29_DistinctGroupsDistinctURIs ==
  (Converted /\ minput.options.includeCitationLayer) =>
    OneUnitPerGroup(sentenceGroups(mctx.validSentences), mctx.validSentences)

\* the messages of the errors raised on an empty list of children
ZeroChildrenMessages ==
  {"sentenceURIs must not be empty", "childURIs must not be empty",
   "tokenURIs must not be empty", "udSentURIs must not be empty"}

\* the emitted nodes that list children, each with the predicate that lists them
EmittedParents ==
  {<<u, "powla:hasChild">> : u \in CitationUnits}
    \cup {<<u, "lila_corpus:isLayer">> :
            u \in TypedAs("lila_corpus:CitationStructure")
                    \cup TypedAs("lila_corpus:SyntacticAnnotation")}

\* C30: a conversion raises an error about zero children exactly when the
\* document has no sentence with a token; when a sentence has a token, every
\* emitted citation structure, Document, Paragraph and Sentence unit and UD
\* layer lists at least one child and no such error is raised, for every
\* placement of the markers and every setting of the options
C30_ThrowsIffNoTokens ==
  /\ tpc = "threw" =>
       /\ Len(validSentences(minput.document)) = 0
       /\ tdoc.thrown \in ZeroChildrenMessages
  /\ tpc \in {"morphology", "serialize", "done"} =>
       Len(validSentences(minput.document)) > 0
  /\ tpc \in {"citation", "ud", "morphology", "serialize", "done"} =>
       \A e \in EmittedParents : ObjectsOf(e[1], e[2]) # {}

C30_Witness ==
  /\ tpc = "threw"
  /\ minput.options.includeCitationLayer
  /\ Len(minput.document.sentences) > 0
  /\ Len(validSentences(minput.document)) = 0
  /\ tdoc.thrown = "udSentURIs must not be empty"

(***************************************************************************)
(* The builders of nodes with children, called one by one on a graph model *)
(* as a caller of the module calls them.  minput is the sequence of the    *)
(* calls made, each with its list of children and the model it was given.  *)
(***************************************************************************)
\* calls per graph model
MaxCalls == 2

\* the lists of children a caller passes
BChildren == {<<>>, <<"http://e/c1">>, <<"http://e/c1", "http://e/c2">>}

BInit ==
  /\ tdoc = createDocument
  /\ tout = [lines |-> <<>>, text |-> ""]
  /\ tread = <<>>
  /\ tpc = "building"
  /\ minput = <<>>
  /\ mctx = <<>>
  /\ CIdle

\* the call of a builder with the given children has left doc
Called(builder, children, doc) ==
  /\ tdoc' = doc
  /\ minput' = Append(minput, [builder |-> builder, children |-> children, doc |-> tdoc])
  /\ tpc' = stageAfter(doc, "building")
  /\ UNCHANGED <<tout, tread, mctx, cvars>>

CanCall == tpc = "building" /\ Len(minput) < MaxCalls

CallAddCitationStructureHeader ==
  /\ CanCall
  /\ \E children \in BChildren :
       Called("addCitationStructureHeader", children,
              addCitationStructureHeader(tdoc, "http://e/d", "D", children))

CallAddCitationDocument ==
  /\ CanCall
  /\ \E children \in BChildren :
       Called("addCitationDocument", children,
              addCitationDocument(tdoc, "http://e/d/doc1", "doc1", 1, children, "Document",
                                  "", ""))

CallAddCitationParagraph ==
  /\ CanCall
  /\ \E children \in BChildren :
       Called("addCitationParagraph", children,
              addCitationParagraph(tdoc, "http://e/d/p1", "", 1, children, "Paragraph",
                                   "", "http://e/d/p2"))

CallAddCitationSentence ==
  /\ CanCall
  /\ \E children \in BChildren :
       Called("addCitationSentence", children,
              addCitationSentence(tdoc, "http://e/d/s1", children, 1, 1, "", "", "Sentence"))

CallAddUDAnnotationLayerHeader ==
  /\ CanCall
  /\ \E children \in BChildren :
       Called("addUDAnnotationLayerHeader", children,
              addUDAnnotationLayerHeader(tdoc, "http://e/d", "D", children))

CallAddUDSentence ==
  /\ CanCall
  /\ \E children \in BChildren :
       Called("addUDSentence", children,
              addUDSentence(tdoc, "http://e/d/UD/s1", children, 1, 1, "http://e/d/UD/s0", ""))

BNext ==
  \/ CallAddCitationStructureHeader
  \/ CallAddCitationDocument
  \/ CallAddCitationParagraph
  \/ CallAddCitationSentence
  \/ CallAddUDAnnotationLayerHeader
  \/ CallAddUDSentence

SpecBuilders == BInit /\ [][BNext]_vars

\* the builders of a node with children
ChildBuilders ==
  {"addCitationStructureHeader", "addCitationDocument", "addCitationParagraph",
   "addCitationSentence", "addUDAnnotationLayerHeader", "addUDSentence"}

\* C16: each builder of a node with children (citation structure header,
\* citation document, paragraph and sentence, UD annotation layer header, UD
\* sentence) raises when called with an empty list of children, and the graph
\* model holds the triples and prefixes it held before the call.
C16_EmptyChildrenRaise ==
  \A n \in 1..Len(minput) :
    minput[n].builder \in ChildBuilders /\ Len(minput[n].children) = 0 =>
      /\ n = Len(minput)
      /\ tpc = "threw"
      /\ aborted(tdoc)
      /\ tdoc.triples = minput[n].doc.triples
      /\ tdoc.prefixes = minput[n].doc.prefixes

\* a UD sentence was added to the model, then a citation sentence was asked
\* for with no token: the call raised and the model still holds the triples of
\* the UD sentence alone
C16_Witness ==
  /\ Len(minput) = 2
  /\ minput[1].builder = "addUDSentence" /\ Len(minput[1].children) = 2
  /\ minput[2].builder = "addCitationSentence" /\ Len(minput[2].children) = 0
  /\ tpc = "threw"
  /\ Len(tdoc.triples) > 0
  /\ tdoc.triples = minput[2].doc.triples

====
